---- MODULE Spec2Model ----
(***************************************************************************)
(* Messy-table extraction and normalisation pipeline of the finance        *)
(* dashboard repository: scripts/01_audit_workbook.py (header location,    *)
(* table extraction, row-type counts, numeric parsing, the audit of one    *)
(* sheet) and scripts/02_understand_pnl_sheets.py (sheet selection, wide   *)
(* P&L cleaning, unpivoting and the loop over the selected sheets).        *)
(*                                                                         *)
(* Text is a sequence of one-character strings, so that upper(), strip()   *)
(* and replace() are computed and not assumed.  A spreadsheet cell is one  *)
(* of  NaN (empty),  an int,  or a str.                                    *)
(***************************************************************************)
EXTENDS Integers, Sequences, FiniteSets, TLC

VARIABLES
    pc,           \* position of the script being run
    row_values,   \* row_score_for_header: the row being scored
    score,        \* row_score_for_header: its result
    prev_score,   \* score of the row before a cell was added (-1: none)
    x,            \* parse_messy_number: the cell value passed in
    parsed,       \* parse_messy_number: what the call produced
    raw_df,       \* detect_header_row: the raw grid, a list of rows of cells
    search_rows,  \* detect_header_row: the search depth
    best,         \* detect_header_row: the index returned (0-based) or None
    debug,        \* detect_header_row: the debug dictionary returned
    df,           \* detect_pnl_row_types: rows of [account, line] cells
    counts,       \* detect_pnl_row_types: the dictionary of counts returned
    raw,          \* main of 02: the raw grid of the sheet being processed
    scenario,     \* main of 02: the scenario of the sheet
    year,         \* main of 02: the year of the sheet
    wide,         \* main of 02: the wide table clean_wide_pnl returned
    info,         \* main of 02: the info dictionary clean_wide_pnl returned
    long,         \* main of 02: the long fact rows wide_to_long_fact returned
    header_row,   \* extract_table_using_header: the header row index passed in
    table,        \* extract_table_using_header: the table returned
    table2,       \* the table after blank rows and columns are dropped again
    audit,        \* audit_sheet: the SheetAudit returned
    xls,          \* the workbook: its sheets in order, each a name and a grid
    sheets,       \* main of 02: the list detect_pnl_sheets returned
    sheet_i,      \* main of 02: how many sheets the loop has processed
    all_infos,    \* main of 02: the info dictionaries collected
    all_long,     \* main of 02: the long tables collected
    fact,         \* main of 02: the concatenation of the long tables
    parsed_audit,   \* parse_messy_number of 01: what the call on x produced
    reparsed,       \* parse_messy_number of 02 called on its own result
    reparsed_audit, \* parse_messy_number of 01 called on its own result
    is_code_audit,  \* looks_like_account_code of 01: its verdict on x
    is_code_pnl     \* looks_like_account_code of 02: its verdict on x

scoreVars  == <<row_values, score, prev_score>>
parseVars  == <<x, parsed>>
headerVars == <<raw_df, search_rows, best, debug>>
typeVars   == <<df, counts>>
pnlVars    == <<raw, scenario, year, wide, info, long>>
tableVars  == <<header_row, table, table2>>
auditVars  == <<audit>>
mainVars   == <<xls, sheets, sheet_i, all_infos, all_long, fact>>
helperVars == <<parsed_audit, reparsed, reparsed_audit, is_code_audit, is_code_pnl>>

vars == <<pc, scoreVars, parseVars, headerVars, typeVars, pnlVars, tableVars,
          auditVars, mainVars, helperVars>>

(***************************** values **************************************)

\* a cell read with dtype=object: empty (NaN), a Python int, or a str
NaN      == [t |-> "nan"]
Int_(n)  == [t |-> "int", v |-> n]
Str_(cs) == [t |-> "str", s |-> cs]

\* Python None, the absence marker
None == [t |-> "None"]

\* A Python float.  A finite float is the decimal (-1)^neg * num / 10^scale
\* with the least scale >= 0; the decimals of the model have at most nine
\* significant digits, which a double represents one-to-one.
Fin(neg, num, scale) ==
    [t |-> "float", cls |-> "fin", neg |-> neg, num |-> num, scale |-> scale]
Inf(neg) == [t |-> "float", cls |-> "inf", neg |-> neg, num |-> 0, scale |-> 0]
NaNFloat == [t |-> "float", cls |-> "nan", neg |-> FALSE, num |-> 0, scale |-> 0]

\* an exception leaving a call
Raise(e) == [t |-> "raise", exc |-> e]

RECURSIVE canon(_, _, _)
canon(neg, num, scale) ==
    IF scale > 0 /\ num % 10 = 0
    THEN canon(neg, num \div 10, scale - 1)
    ELSE Fin(neg, num, scale)

\* float(n) for an int n
float_of_int(n) == IF n < 0 THEN Fin(TRUE, -n, 0) ELSE Fin(FALSE, n, 0)

\* unary minus on a float
neg_float(f) == IF f.cls = "nan" THEN f ELSE [f EXCEPT !.neg = ~f.neg]

(***************************** text ****************************************)

LowerLetters == <<"a","b","c","d","e","f","g","h","i","j","k","l","m",
                  "n","o","p","q","r","s","t","u","v","w","x","y","z">>

UpperLetters == <<"A","B","C","D","E","F","G","H","I","J","K","L","M",
                  "N","O","P","Q","R","S","T","U","V","W","X","Y","Z">>

Whitespace == {" ", "\t"}

\* str.upper() on one character
upper_char(c) ==
    IF \E i \in 1..26 : LowerLetters[i] = c
    THEN UpperLetters[CHOOSE i \in 1..26 : LowerLetters[i] = c]
    ELSE c

\* str.lower() on one character
lower_char(c) ==
    IF \E i \in 1..26 : UpperLetters[i] = c
    THEN LowerLetters[CHOOSE i \in 1..26 : UpperLetters[i] = c]
    ELSE c

upper(s) == [i \in 1..Len(s) |-> upper_char(s[i])]

lower(s) == [i \in 1..Len(s) |-> lower_char(s[i])]

RECURSIVE lstrip(_)
lstrip(s) == IF s # <<>> /\ Head(s) \in Whitespace THEN lstrip(Tail(s)) ELSE s

RECURSIVE rstrip(_)
rstrip(s) ==
    IF s # <<>> /\ s[Len(s)] \in Whitespace
    THEN rstrip(SubSeq(s, 1, Len(s) - 1))
    ELSE s

\* str.strip()
strip(s) == rstrip(lstrip(s))

\* str.replace(ch, "") for a one-character ch
remove_char(s, ch) == SelectSeq(s, LAMBDA c : c # ch)

(***************************** header scoring ******************************)

MONTH_NAMES ==
    { <<"J","A","N">>, <<"F","E","B">>, <<"M","A","R">>, <<"A","P","R">>,
      <<"M","A","Y">>, <<"J","U","N">>, <<"J","U","L">>, <<"A","U","G">>,
      <<"S","E","P">>, <<"O","C","T">>, <<"N","O","V">>, <<"D","E","C">> }

T_ACCOUNT   == <<"A","C","C","O","U","N","T">>
T_LINEITEM  == <<"L","I","N","E","I","T","E","M">>
T_LINEITEMS == <<"L","I","N","E","I","T","E","M","S">>
T_LINE_ITEM == <<"L","I","N","E"," ","I","T","E","M">>
T_TOTAL     == <<"T","O","T","A","L">>

is_line_item(v) ==
    remove_char(v, " ") \in {T_LINEITEM, T_LINEITEMS} \/ v = T_LINE_ITEM

\* the month count taken over distinct month names instead of over cells
row_score_distinct_months(rv) ==
    LET up == [i \in 1..Len(rv) |-> upper(rv[i])]
    IN  (IF \E i \in 1..Len(up) : up[i] = T_ACCOUNT THEN 4 ELSE 0)
      + (IF \E i \in 1..Len(up) : is_line_item(up[i]) THEN 4 ELSE 0)
      + Cardinality({up[i] : i \in {j \in 1..Len(up) : up[j] \in MONTH_NAMES}})
      + (IF \E i \in 1..Len(up) : up[i] = T_TOTAL THEN 2 ELSE 0)

\* all() written where any() is meant for the ACCOUNT signal
row_score_all_account(rv) ==
    LET up == [i \in 1..Len(rv) |-> upper(rv[i])]
    IN  (IF \A i \in 1..Len(up) : up[i] = T_ACCOUNT THEN 4 ELSE 0)
      + (IF \E i \in 1..Len(up) : is_line_item(up[i]) THEN 4 ELSE 0)
      + Cardinality({i \in 1..Len(up) : up[i] \in MONTH_NAMES})
      + (IF \E i \in 1..Len(up) : up[i] = T_TOTAL THEN 2 ELSE 0)

row_score_for_header(rv) ==
    LET up == [i \in 1..Len(rv) |-> upper(rv[i])]
        \* any(v == "ACCOUNT" for v in upper)
        s1 == IF \E i \in 1..Len(up) : up[i] = T_ACCOUNT THEN 4 ELSE 0
        s2 == IF \E i \in 1..Len(up) : is_line_item(up[i])
              THEN s1 + 4 ELSE s1
        \* sum(1 for v in upper if v in MONTH_NAMES): one per matching cell
        months_found == Cardinality({i \in 1..Len(up) : up[i] \in MONTH_NAMES})
        s3 == s2 + months_found * 1
        s4 == IF \E i \in 1..Len(up) : up[i] = T_TOTAL THEN s3 + 2 ELSE s3
    IN  s4

(***************************** header location *****************************)

Digits == <<"0","1","2","3","4","5","6","7","8","9">>

is_digit(c) == \E i \in 1..10 : Digits[i] = c

digit_val(c) == (CHOOSE i \in 1..10 : Digits[i] = c) - 1

Min(a, b) == IF a < b THEN a ELSE b

in_list(xs, v) == \E i \in 1..Len(xs) : xs[i] = v

index_of(xs, v) == CHOOSE i \in 1..Len(xs) : xs[i] = v

\* str(n) for an int n
RECURSIVE str_nat(_)
str_nat(n) ==
    IF n < 10 THEN <<Digits[n + 1]>>
    ELSE str_nat(n \div 10) \o <<Digits[(n % 10) + 1]>>

str_int(n) == IF n < 0 THEN <<"-">> \o str_nat(-n) ELSE str_nat(n)

\* str(x) for a cell that is not empty
str_cell(c) == IF c.t = "int" THEN str_int(c.v) ELSE c.s

normalize_text(c) == IF c.t = "nan" THEN <<>> ELSE strip(str_cell(c))

\* sorted(scores, key=lambda t: t[1], reverse=True) with the equal keys
\* exchanged: a candidate goes in front of the candidates of its own score
RECURSIVE sorted_by_score_ties_reversed(_)
sorted_by_score_ties_reversed(cands) ==
    IF cands = <<>> THEN <<>>
    ELSE LET rest == sorted_by_score_ties_reversed(SubSeq(cands, 1, Len(cands) - 1))
             c    == cands[Len(cands)]
             k    == Cardinality({j \in 1..Len(rest) : rest[j].score > c.score})
         IN  SubSeq(rest, 1, k) \o <<c>> \o SubSeq(rest, k + 1, Len(rest))

\* sorted(scores, key=lambda t: t[1], reverse=True): a stable sort, so the
\* candidates of one score keep their scan order
RECURSIVE sorted_by_score(_)
sorted_by_score(cands) ==
    IF cands = <<>> THEN <<>>
    ELSE LET rest == sorted_by_score(SubSeq(cands, 1, Len(cands) - 1))
             c    == cands[Len(cands)]
             k    == Cardinality({j \in 1..Len(rest) : rest[j].score >= c.score})
         IN  SubSeq(rest, 1, k) \o <<c>> \o SubSeq(rest, k + 1, Len(rest))

\* the (i, score, preview) tuples of rows 0 .. n-1 that score above 0
RECURSIVE scan_scores(_, _)
scan_scores(grid, n) ==
    IF n = 0 THEN <<>>
    ELSE LET i        == n - 1
             row_vals == [j \in 1..Len(grid[i + 1]) |-> normalize_text(grid[i + 1][j])]
             sc       == row_score_for_header(row_vals)
             prev     == scan_scores(grid, n - 1)
         IN  IF sc > 0
             THEN Append(prev, [i |-> i, score |-> sc,
                                preview |-> SubSeq(row_vals, 1, Min(15, Len(row_vals)))])
             ELSE prev

\* the scan taken over the whole grid, the search depth ignored
detect_header_row_whole_grid(grid, depth) ==
    LET scores_sorted == sorted_by_score(scan_scores(grid, Len(grid)))
        b             == IF scores_sorted # <<>> THEN Int_(scores_sorted[1].i) ELSE None
    IN  << b,
           [candidates_top10 |-> SubSeq(scores_sorted, 1, Min(10, Len(scores_sorted))),
            best_row_index   |-> b,
            best_score       |-> IF scores_sorted # <<>>
                                 THEN Int_(scores_sorted[1].score) ELSE None] >>

\* the whole ranked list kept as candidates_top10, the [:10] left out
detect_header_row_uncut(grid, depth) ==
    LET n             == Min(depth, Len(grid))
        scores_sorted == sorted_by_score(scan_scores(grid, n))
        b             == IF scores_sorted # <<>> THEN Int_(scores_sorted[1].i) ELSE None
    IN  << b,
           [candidates_top10 |-> scores_sorted,
            best_row_index   |-> b,
            best_score       |-> IF scores_sorted # <<>>
                                 THEN Int_(scores_sorted[1].score) ELSE None] >>

\* returns <<best, debug>>
detect_header_row(grid, depth) ==
    LET n             == Min(depth, Len(grid))
        scores        == scan_scores(grid, n)
        scores_sorted == sorted_by_score(scores)
        b             == IF scores_sorted # <<>> THEN Int_(scores_sorted[1].i) ELSE None
    IN  << b,
           [candidates_top10 |-> SubSeq(scores_sorted, 1, Min(10, Len(scores_sorted))),
            best_row_index   |-> b,
            best_score       |-> IF scores_sorted # <<>>
                                 THEN Int_(scores_sorted[1].score) ELSE None] >>

(***************************** table extraction ****************************)

t_nan_str == <<"n","a","n">>

\* Series.astype(str) on one cell: an empty cell becomes the text "nan"
astype_str(c) == IF c.t = "nan" THEN t_nan_str ELSE str_cell(c)

is_na(c) == c.t \in {"nan", "None"}

\* a DataFrame: its column labels and its rows of cells, in order
Frame(cols, rows) == [t |-> "frame", columns |-> cols, rows |-> rows]

\* the column of a frame at position j, as a list of cells
column_at(f, j) == [k \in 1..Len(f.rows) |-> f.rows[k][j]]

\* is_blank_col for a Series: all cells NaN, or all cells empty text once
\* cast to str and stripped (astype(str) turns NaN into "nan")
is_blank_col(col) ==
    \/ \A k \in 1..Len(col) : is_na(col[k])
    \/ \A k \in 1..Len(col) : strip(astype_str(col[k])) = <<>>

\* the positions of a frame's columns kept when the labels in a set are
\* dropped
keep_positions(f, labels) ==
    SelectSeq([j \in 1..Len(f.columns) |-> j], LAMBDA j : f.columns[j] \notin labels)

\* lines 100-106: df.dropna(how="all"), then the blank columns are dropped.
\* df[c] for a label carried by two columns is a DataFrame, and is_blank_col
\* then raises ValueError (the truth value of a Series is ambiguous).
drop_blank_rows_cols(f) ==
    LET kept == SelectSeq(f.rows, LAMBDA r : \E j \in 1..Len(r) : ~is_na(r[j]))
        g    == Frame(f.columns, kept)
        dup  == \E i, j \in 1..Len(g.columns) : i # j /\ g.columns[i] = g.columns[j]
        blank_cols == {g.columns[j] : j \in {i \in 1..Len(g.columns) :
                                                is_blank_col(column_at(g, i))}}
        keep == keep_positions(g, blank_cols)
    IN  IF dup THEN Raise("ValueError")
        ELSE Frame([k \in 1..Len(keep) |-> g.columns[keep[k]]],
                   [r \in 1..Len(kept) |->
                      [k \in 1..Len(keep) |-> kept[r][keep[k]]]])

\* the first row (1-based) of the slice [start:] of a list of n items
slice_from(start, n) ==
    IF start < 0 THEN (IF start + n < 0 THEN 1 ELSE start + n + 1)
    ELSE start + 1

\* df.iloc[h] raises IndexError outside -len .. len-1; a negative h counts
\* from the end
extract_table_using_header(grid, h) ==
    LET n      == Len(grid)
        hrow   == IF h < 0 THEN grid[n + h + 1] ELSE grid[h + 1]
        labels == [j \in 1..Len(hrow) |-> normalize_text(hrow[j])]
        body   == SubSeq(grid, slice_from(h + 1, n), n)
    IN  IF h >= n \/ h < -n THEN Raise("IndexError")
        ELSE drop_blank_rows_cols(Frame(labels, body))

(***************************** row types ***********************************)

is_upper_letter(c) == \E i \in 1..26 : UpperLetters[i] = c
is_lower_letter(c) == \E i \in 1..26 : LowerLetters[i] = c

\* str.isupper(): no lower-case letter and at least one upper-case letter
isupper(s) ==
    /\ \A i \in 1..Len(s) : ~is_lower_letter(s[i])
    /\ \E i \in 1..Len(s) : is_upper_letter(s[i])

\* re.match where re.fullmatch is meant: text may follow the digits
match_d3_6(s) ==
    /\ Len(s) >= 3
    /\ \A i \in 1..3 : is_digit(s[i])

\* re.fullmatch(r"\d{3,6}", s)
fullmatch_d3_6(s) ==
    /\ Len(s) >= 3
    /\ Len(s) <= 6
    /\ \A i \in 1..Len(s) : is_digit(s[i])

\* looks_like_account_code of 01_audit_workbook.py (a str comes in)
looks_like_account_code_audit(s) == fullmatch_d3_6(strip(s))

contains(s, sub) ==
    \E i \in 0..(Len(s) - Len(sub)) : SubSeq(s, i + 1, i + Len(sub)) = sub

t_total_lc        == <<"t","o","t","a","l">>
t_gross_profit_lc == <<"g","r","o","s","s"," ","p","r","o","f","i","t">>
t_ebitda_lc       == <<"e","b","i","t","d","a">>
t_net_income_lc   == <<"n","e","t"," ","i","n","c","o","m","e">>

t_Total_cs        == <<"T","o","t","a","l">>
t_Gross_Profit_cs == <<"G","r","o","s","s"," ","P","r","o","f","i","t">>
t_EBITDA_cs       == <<"E","B","I","T","D","A">>
t_Net_Income_cs   == <<"N","e","t"," ","I","n","c","o","m","e">>

\* the pattern matched with case=True
contains_subtotal_pattern_cased(s) ==
    \/ SubSeq(s, 1, Min(5, Len(s))) = t_Total_cs
    \/ contains(s, t_Gross_Profit_cs)
    \/ contains(s, t_EBITDA_cs)
    \/ contains(s, t_Net_Income_cs)

\* str.contains(r"^Total|Gross Profit|EBITDA|Net Income", case=False, regex=True)
contains_subtotal_pattern(s) ==
    LET l == lower(s)
    IN  \/ SubSeq(l, 1, Min(5, Len(l))) = t_total_lc
        \/ contains(l, t_gross_profit_lc)
        \/ contains(l, t_ebitda_lc)
        \/ contains(l, t_net_income_lc)

\* lines 145-150 for one row [account |-> cell, line |-> cell] of the table
row_is_account(r) == looks_like_account_code_audit(strip(astype_str(r.account)))

row_is_section(r) ==
    LET line == strip(astype_str(r.line))
    IN  ~row_is_account(r) /\ isupper(line) /\ line # <<>>

row_is_subtotal(r) ==
    ~row_is_account(r) /\ contains_subtotal_pattern(strip(astype_str(r.line)))

\* rows: a list of [account |-> cell, line |-> cell]
detect_pnl_row_types(rows) ==
    LET idx == 1..Len(rows)
    IN  [rows_total            |-> Len(rows),
         rows_account          |-> Cardinality({i \in idx : row_is_account(rows[i])}),
         rows_section_headers  |-> Cardinality({i \in idx : row_is_section(rows[i])}),
         rows_subtotals        |-> Cardinality({i \in idx : row_is_subtotal(rows[i])}),
         rows_other_nonaccount |-> Cardinality({i \in idx : ~row_is_account(rows[i])})]

(***************************** sheet audit *********************************)

t_account_lc   == <<"a","c","c","o","u","n","t">>
t_lineitem_lc  == <<"l","i","n","e","i","t","e","m">>
t_lineitems_lc == <<"l","i","n","e","i","t","e","m","s">>
t_line_item_lc == <<"l","i","n","e"," ","i","t","e","m">>

find_month_columns(columns) ==
    SelectSeq(columns, LAMBDA c : upper(strip(c)) \in MONTH_NAMES)

\* next((c for c in cols if pred(c)), None): the first match, or None
first_account_col(cols) ==
    LET hits == {j \in 1..Len(cols) : lower(strip(cols[j])) = t_account_lc}
    IN  IF hits = {} THEN None
        ELSE Str_(cols[CHOOSE j \in hits : \A k \in hits : j <= k])

first_line_col(cols) ==
    LET hits == {j \in 1..Len(cols) :
                    \/ remove_char(lower(strip(cols[j])), " ")
                          \in {t_lineitem_lc, t_lineitems_lc}
                    \/ lower(strip(cols[j])) = t_line_item_lc}
    IN  IF hits = {} THEN None
        ELSE Str_(cols[CHOOSE j \in hits : \A k \in hits : j <= k])

\* df[account_col] and df[line_col], row by row
pnl_rows(f, account_col, line_col) ==
    [k \in 1..Len(f.rows) |->
        [account |-> f.rows[k][index_of(f.columns, account_col)],
         line    |-> f.rows[k][index_of(f.columns, line_col)]]]

\* the labels Column1.. of the columns of the raw grid that are blank
blank_raw_columns(grid) ==
    LET n     == IF grid = <<>> THEN 0 ELSE Len(grid[1])
        blank == SelectSeq([j \in 1..n |-> j],
                           LAMBDA j : is_blank_col([k \in 1..Len(grid) |-> grid[k][j]]))
    IN  [k \in 1..Len(blank) |-> <<"C","o","l","u","m","n">> \o str_nat(blank[k])]

\* the SheetAudit returned (without its profile, which only the report
\* reads), or the exception that leaves extract_table_using_header
audit_sheet(grid) ==
    LET found      == detect_header_row(grid, 60)
        hdr        == found[1]
        extracted  == extract_table_using_header(grid, hdr.v)
        cols       == extracted.columns
        acol       == first_account_col(cols)
        lcol       == first_line_col(cols)
        base       == [t |-> "SheetAudit",
                       raw_shape |-> <<Len(grid), IF grid = <<>> THEN 0 ELSE Len(grid[1])>>,
                       detected_header_row |-> hdr,
                       header_debug |-> found[2]]
    IN  IF hdr = None
        THEN base @@ [extracted_shape |-> None, columns |-> <<>>,
                      month_columns |-> <<>>, blank_columns_removed |-> <<>>,
                      pnl_row_type_counts |-> None]
        ELSE IF extracted.t = "raise" THEN extracted
        ELSE base @@ [extracted_shape |-> <<Len(extracted.rows), Len(cols)>>,
                      columns |-> cols,
                      month_columns |-> find_month_columns(cols),
                      blank_columns_removed |-> blank_raw_columns(grid),
                      pnl_row_type_counts |->
                          IF acol # None /\ lcol # None
                          THEN detect_pnl_row_types(pnl_rows(extracted, acol.s, lcol.s))
                          ELSE None]

(***************************** numeric parsing *****************************)

RECURSIVE digits_val(_)
digits_val(ds) ==
    IF ds = <<>> THEN 0
    ELSE digits_val(SubSeq(ds, 1, Len(ds) - 1)) * 10 + digit_val(ds[Len(ds)])

t_inf      == <<"i","n","f">>
t_infinity == <<"i","n","f","i","n","i","t","y">>
t_nan      == <<"n","a","n">>

startswith(s, c) == s # <<>> /\ s[1] = c
endswith(s, c)   == s # <<>> /\ s[Len(s)] = c

\* float(s) for a str s: optional whitespace, optional sign, then inf,
\* infinity or nan in any case, or digits with at most one point and at
\* least one digit; anything else raises ValueError.  (Exponents and
\* underscores are not in the alphabet of the texts modelled.)
float_of_str(s) ==
    LET t     == strip(s)
        sgn   == t # <<>> /\ t[1] \in {"+", "-"}
        isneg == t # <<>> /\ t[1] = "-"
        body  == IF sgn THEN Tail(t) ELSE t
        dots  == {i \in 1..Len(body) : body[i] = "."}
        ds    == remove_char(body, ".")
    IN  IF lower(body) \in {t_inf, t_infinity} THEN Inf(isneg)
        ELSE IF lower(body) = t_nan THEN NaNFloat
        ELSE IF /\ ds # <<>>
                /\ \A i \in 1..Len(ds) : is_digit(ds[i])
                /\ Cardinality(dots) <= 1
        THEN canon(isneg, digits_val(ds),
                   IF dots = {} THEN 0
                   ELSE Len(body) - (CHOOSE i \in dots : TRUE))
        ELSE Raise("ValueError")

\* the try/except left out: the ValueError leaves the call
parse_messy_number_uncaught(c) ==
    IF c.t \in {"nan", "None"} \/ (c.t = "float" /\ c.cls = "nan") THEN None
    ELSE IF c.t = "int" THEN float_of_int(c.v)
    ELSE IF c.t = "float" THEN c
    ELSE LET s0 == strip(c.s)
             is_parens == startswith(s0, "(") /\ endswith(s0, ")")
             s2 == strip(remove_char(remove_char(remove_char(s0, "("), ")"), ","))
             val == float_of_str(s2)
         IN  IF s0 \in {<<>>, <<"-">>} THEN None
             ELSE IF val.t = "raise" THEN val
             ELSE IF is_parens THEN neg_float(val) ELSE val

\* "or" written where "and" is meant in the parenthesis test
parse_messy_number_either_paren(c) ==
    IF c.t \in {"nan", "None"} \/ (c.t = "float" /\ c.cls = "nan") THEN None
    ELSE IF c.t = "int" THEN float_of_int(c.v)
    ELSE IF c.t = "float" THEN c
    ELSE LET s0 == strip(c.s)
             is_parens == startswith(s0, "(") \/ endswith(s0, ")")
             s2 == strip(remove_char(remove_char(remove_char(s0, "("), ")"), ","))
             val == float_of_str(s2)
         IN  IF s0 \in {<<>>, <<"-">>} THEN None
             ELSE IF val.t = "raise" THEN None
             ELSE IF is_parens THEN neg_float(val) ELSE val

\* parse_messy_number of 01_audit_workbook.py
parse_messy_number_audit(c) ==
    IF c.t \in {"nan", "None"} \/ (c.t = "float" /\ c.cls = "nan") THEN None
    ELSE IF c.t = "int" THEN float_of_int(c.v)
    ELSE IF c.t = "float" THEN c
    ELSE LET s0 == strip(c.s)
             is_parens == startswith(s0, "(") /\ endswith(s0, ")")
             s1 == remove_char(remove_char(s0, "("), ")")
             s2 == strip(remove_char(s1, ","))
             val == float_of_str(s2)
         IN  IF s0 \in {<<>>, <<"-">>} THEN None
             ELSE IF val.t = "raise" /\ val.exc = "ValueError" THEN None
             ELSE IF val.t = "raise" THEN val
             ELSE IF is_parens THEN neg_float(val) ELSE val

\* parse_messy_number of 02_understand_pnl_sheets.py
parse_messy_number(c) ==
    IF c.t \in {"nan", "None"} \/ (c.t = "float" /\ c.cls = "nan") THEN None
    ELSE IF c.t = "int" THEN float_of_int(c.v)
    ELSE IF c.t = "float" THEN c
    ELSE LET s0 == strip(c.s)
             is_parens == startswith(s0, "(") /\ endswith(s0, ")")
             s1 == remove_char(remove_char(s0, "("), ")")
             s2 == strip(remove_char(s1, ","))
             val == float_of_str(s2)
         IN  IF s0 \in {<<>>, <<"-">>} THEN None
             ELSE IF val.t = "raise" /\ val.exc = "ValueError" THEN None
             ELSE IF val.t = "raise" THEN val
             ELSE IF is_parens THEN neg_float(val) ELSE val

(***************************** wide P&L to long facts ***********************)

t_Account_col == <<"A","c","c","o","u","n","t">>
t_Line_Item_col == <<"L","i","n","e"," ","I","t","e","m">>
t_Total_col == <<"T","o","t","a","l">>

MONTHS ==
    << <<"J","a","n">>, <<"F","e","b">>, <<"M","a","r">>, <<"A","p","r">>,
       <<"M","a","y">>, <<"J","u","n">>, <<"J","u","l">>, <<"A","u","g">>,
       <<"S","e","p">>, <<"O","c","t">>, <<"N","o","v">>, <<"D","e","c">> >>

\* MONTH_TO_NUM[m]
MONTH_TO_NUM(m) == CHOOSE i \in 1..12 : MONTHS[i] = m

\* looks_like_account_code of 02_understand_pnl_sheets.py (a cell comes in)
looks_like_account_code_pnl(c) ==
    IF c.t \in {"nan", "None"} THEN FALSE
    ELSE fullmatch_d3_6(strip(str_cell(c)))

\* the first of rows 0 .. min(len, max_scan)-1 whose cell in the account
\* column looks like an account code, or None
find_first_data_row(grid, account_col_idx, max_scan) ==
    LET n    == Min(Len(grid), max_scan)
        hits == {i \in 0..(n - 1) :
                    looks_like_account_code_pnl(grid[i + 1][account_col_idx + 1])}
    IN  IF hits = {} THEN None
        ELSE Int_(CHOOSE i \in hits : \A j \in hits : i <= j)

infer_column_names(ncols) ==
    IF ncols = 15 THEN <<t_Account_col, t_Line_Item_col>> \o MONTHS \o <<t_Total_col>>
    ELSE IF ncols = 14 THEN <<t_Account_col, t_Line_Item_col>> \o MONTHS
    ELSE <<t_Account_col, t_Line_Item_col>>
         \o [k \in 1..(IF ncols > 2 THEN ncols - 2 ELSE 0) |->
                <<"C","o","l">> \o str_int(k + 2)]

\* pd.DataFrame()
EmptyFrame == Frame(<<>>, <<>>)

\* DataFrame.empty
frame_empty(f) == f.columns = <<>> \/ f.rows = <<>>

\* raw.shape[1]
shape_cols(grid) == IF grid = <<>> THEN 0 ELSE Len(grid[1])

\* return a, b
Return2(a, b) == [t |-> "return", first |-> a, second |-> b]

\* a sheet without an account-code row treated as an error that is raised
clean_wide_pnl_strict(grid, yr, scen) ==
    LET start == find_first_data_row(grid, 0, 80)
        base  == [first_data_row_index |-> start,
                  ncols |-> shape_cols(grid), nrows_raw |-> Len(grid)]
        names == infer_column_names(shape_cols(grid))
        \* wide = raw.iloc[start:]
        sliced == SubSeq(grid, start.v + 1, Len(grid))
        \* wide = wide.dropna(how="all")
        kept  == SelectSeq(sliced, LAMBDA r : \E j \in 1..Len(r) : ~is_na(r[j]))
        num_cols == {j \in 1..Len(names) :
                        in_list(MONTHS, names[j]) \/ names[j] = t_Total_col}
        rows  == [k \in 1..Len(kept) |->
                   [cells |-> [j \in 1..Len(names) |->
                                 IF j \in num_cols
                                 THEN parse_messy_number(kept[k][j])
                                 ELSE kept[k][j]],
                    IsAccountRow |->
                        looks_like_account_code_pnl(kept[k][index_of(names, t_Account_col)]),
                    Scenario |-> scen,
                    Year |-> yr]]
    IN  IF start = None
        THEN Raise("ValueError")
        ELSE IF Len(names) # shape_cols(grid)
        THEN Raise("ValueError")
        ELSE Return2(Frame(names, rows),
                base @@ [rows_after_start |-> Len(rows),
                         account_rows |->
                             Cardinality({k \in 1..Len(rows) : rows[k].IsAccountRow}),
                         non_account_rows |->
                             Cardinality({k \in 1..Len(rows) : ~rows[k].IsAccountRow}),
                         detected_month_cols |->
                             SelectSeq(MONTHS, LAMBDA m : in_list(names, m)),
                         has_total |-> in_list(names, t_Total_col)])

\* returns (wide, info), or the exception raised by the assignment of the
\* inferred names when their number is not the number of columns (info
\* without its two report previews, sample_accounts and sample_lines)
clean_wide_pnl(grid, yr, scen) ==
    LET start == find_first_data_row(grid, 0, 80)
        base  == [first_data_row_index |-> start,
                  ncols |-> shape_cols(grid), nrows_raw |-> Len(grid)]
        names == infer_column_names(shape_cols(grid))
        \* wide = raw.iloc[start:]
        sliced == SubSeq(grid, start.v + 1, Len(grid))
        \* wide = wide.dropna(how="all")
        kept  == SelectSeq(sliced, LAMBDA r : \E j \in 1..Len(r) : ~is_na(r[j]))
        num_cols == {j \in 1..Len(names) :
                        in_list(MONTHS, names[j]) \/ names[j] = t_Total_col}
        rows  == [k \in 1..Len(kept) |->
                   [cells |-> [j \in 1..Len(names) |->
                                 IF j \in num_cols
                                 THEN parse_messy_number(kept[k][j])
                                 ELSE kept[k][j]],
                    IsAccountRow |->
                        looks_like_account_code_pnl(kept[k][index_of(names, t_Account_col)]),
                    Scenario |-> scen,
                    Year |-> yr]]
    IN  IF start = None
        THEN Return2(EmptyFrame,
                     base @@ [error |-> "Could not find an account-code row"])
        ELSE IF Len(names) # shape_cols(grid)
        THEN Raise("ValueError")
        ELSE Return2(Frame(names, rows),
                base @@ [rows_after_start |-> Len(rows),
                         account_rows |->
                             Cardinality({k \in 1..Len(rows) : rows[k].IsAccountRow}),
                         non_account_rows |->
                             Cardinality({k \in 1..Len(rows) : ~rows[k].IsAccountRow}),
                         detected_month_cols |->
                             SelectSeq(MONTHS, LAMBDA m : in_list(names, m)),
                         has_total |-> in_list(names, t_Total_col)])

\* every fourth year taken as a leap year, the century rule left out
is_leap_every_fourth(y) == y % 4 = 0

is_leap(y) == (y % 4 = 0 /\ y % 100 # 0) \/ y % 400 = 0

\* the day pd.offsets.MonthEnd(0) rolls the first of the month forward to
month_end_day(y, m) ==
    IF m = 2 THEN (IF is_leap(y) THEN 29 ELSE 28)
    ELSE IF m \in {4, 6, 9, 11} THEN 30 ELSE 31

\* one melted row with its date columns
fact_row(r, columns, m) ==
    LET mn == MONTH_TO_NUM(m)
    IN  [Account        |-> r.cells[index_of(columns, t_Account_col)],
         Line_Item      |-> r.cells[index_of(columns, t_Line_Item_col)],
         Scenario       |-> r.Scenario,
         Year           |-> r.Year,
         Month          |-> m,
         Amount         |-> r.cells[index_of(columns, m)],
         MonthNumber    |-> mn,
         MonthStartDate |-> <<r.Year, mn, 1>>,
         MonthEndDate   |-> <<r.Year, mn, month_end_day(r.Year, mn)>>,
         Quarter        |-> <<"Q">> \o str_int(((mn - 1) \div 3) + 1)]

\* the melt taken over every row of the wide table, account row or not
wide_to_long_fact_all_rows(w) ==
    IF frame_empty(w) THEN <<>>
    ELSE LET month_cols == SelectSeq(MONTHS, LAMBDA m : in_list(w.columns, m))
             a == Len(w.rows)
         IN  [p \in 1..(a * Len(month_cols)) |->
                fact_row(w.rows[((p - 1) % a) + 1], w.columns,
                         month_cols[((p - 1) \div a) + 1])]

\* melt lays the rows out month by month: for each month column in turn,
\* one row per account row in table order
wide_to_long_fact(w) ==
    IF frame_empty(w) THEN <<>>
    ELSE LET wide_acc   == SelectSeq(w.rows, LAMBDA r : r.IsAccountRow)
             month_cols == SelectSeq(MONTHS, LAMBDA m : in_list(w.columns, m))
             a          == Len(wide_acc)
         IN  IF a = 0 THEN <<>>
             ELSE [p \in 1..(a * Len(month_cols)) |->
                     fact_row(wide_acc[((p - 1) % a) + 1], w.columns,
                              month_cols[((p - 1) \div a) + 1])]

(***************************** sheet selection *****************************)

t_actual_lc == <<"a","c","t","u","a","l">>
t_budget_lc == <<"b","u","d","g","e","t">>
t_pl_lc     == <<"p","&","l">>

\* str.title(): a letter is upper-cased after a character that is not a
\* letter (or at the start) and lower-cased after a letter
title(s) ==
    [i \in 1..Len(s) |->
        IF i > 1 /\ (is_upper_letter(s[i - 1]) \/ is_lower_letter(s[i - 1]))
        THEN lower_char(s[i]) ELSE upper_char(s[i])]

\* the pattern without its closing $: text may follow the four digits
match_pnl_name_open_end(t) ==
    LET g1    == SubSeq(t, 1, 6)
        rest1 == SubSeq(t, 7, Len(t))
        rest2 == lstrip(rest1)
        rest3 == SubSeq(rest2, 4, Len(rest2))
        rest4 == lstrip(rest3)
    IN  IF /\ Len(t) >= 6
           /\ lower(g1) \in {t_actual_lc, t_budget_lc}
           /\ Len(rest2) < Len(rest1)
           /\ lower(SubSeq(rest2, 1, Min(3, Len(rest2)))) = t_pl_lc
           /\ Len(rest4) < Len(rest3)
           /\ Len(rest4) >= 4
           /\ \A i \in 1..4 : is_digit(rest4[i])
        THEN [t |-> "match", group1 |-> g1, group2 |-> SubSeq(rest4, 1, 4)]
        ELSE None

\* re.compile(r"^(Actual|Budget)\s+P&L\s+(\d{4})$", re.IGNORECASE).match(t):
\* the match with its two groups, or None
match_pnl_name(t) ==
    LET g1    == SubSeq(t, 1, 6)
        rest1 == SubSeq(t, 7, Len(t))
        rest2 == lstrip(rest1)
        rest3 == SubSeq(rest2, 4, Len(rest2))
        rest4 == lstrip(rest3)
    IN  IF /\ Len(t) >= 6
           /\ lower(g1) \in {t_actual_lc, t_budget_lc}
           /\ Len(rest2) < Len(rest1)
           /\ lower(SubSeq(rest2, 1, Min(3, Len(rest2)))) = t_pl_lc
           /\ Len(rest4) < Len(rest3)
           /\ Len(rest4) = 4
           /\ \A i \in 1..4 : is_digit(rest4[i])
        THEN [t |-> "match", group1 |-> g1, group2 |-> rest4]
        ELSE None

\* the (sheet_name, scenario, year) tuples of the sheets whose name matches,
\* in the order of xls.sheet_names
RECURSIVE detect_pnl_sheets(_)
detect_pnl_sheets(book) ==
    IF book = <<>> THEN <<>>
    ELSE LET s0   == book[Len(book)].sheet_name
             mt   == match_pnl_name(strip(s0))
             prev == detect_pnl_sheets(SubSeq(book, 1, Len(book) - 1))
         IN  IF mt # None
             THEN Append(prev, [sheet_name |-> s0,
                                scenario   |-> title(mt.group1),
                                year       |-> digits_val(mt.group2)])
             ELSE prev

\* pd.read_excel(xls_path, sheet_name=sheet_name, header=None, dtype=object)
read_excel(book, sheet_name) ==
    book[CHOOSE k \in 1..Len(book) : book[k].sheet_name = sheet_name].grid

\* pd.concat(frames, ignore_index=True): the rows of the frames, in order
RECURSIVE concat(_)
concat(frames) ==
    IF frames = <<>> THEN <<>>
    ELSE concat(SubSeq(frames, 1, Len(frames) - 1)) \o frames[Len(frames)]

(***************************** scoring script ******************************)

MaxCells == 2

t_Account   == <<"A","c","c","o","u","n","t">>
t_Line_Item == <<"L","i","n","e"," ","I","t","e","m">>
t_lineitems == <<"l","i","n","e"," ","i","t","e","m","s">>
t_Jan       == <<"J","a","n">>
t_feb       == <<"f","e","b">>
t_Total     == <<"T","o","t","a","l">>
t_Totals    == <<"T","o","t","a","l","s">>
t_empty     == <<>>

\* Account | Line Item | Jan .. Dec | Total
FullHeaderRow == <<t_Account, t_Line_Item>> \o MONTHS \o <<t_Total>>

ScoreCells ==
    {t_Account, T_ACCOUNT, t_Line_Item, t_lineitems, t_Jan, t_feb, t_Total,
     t_Totals, t_empty}

SeqsUpTo(S, n) == UNION {[1..k -> S] : k \in 0..n}

insert_at(xs, p, c) == SubSeq(xs, 1, p) \o <<c>> \o SubSeq(xs, p + 1, Len(xs))

\* the variables of the scripts that are not running
IdleScore == row_values = <<>> /\ score = -1 /\ prev_score = -1
IdleParse == x = NaN /\ parsed = None
IdleHeader == raw_df = <<>> /\ search_rows = 0 /\ best = None /\ debug = None
IdleTypes == df = <<>> /\ counts = None
IdlePnl ==
    /\ raw = <<>> /\ scenario = "" /\ year = 0
    /\ wide = None /\ info = None /\ long = None
IdleTable == header_row = 0 /\ table = None /\ table2 = None
IdleAudit == audit = None
IdleMain ==
    /\ xls = <<>> /\ sheets = None /\ sheet_i = 0
    /\ all_infos = <<>> /\ all_long = <<>> /\ fact = None
IdleHelpers ==
    /\ parsed_audit = None /\ reparsed = None /\ reparsed_audit = None
    /\ is_code_audit = None /\ is_code_pnl = None

InitScore ==
    /\ IdleAudit
    /\ IdleMain
    /\ pc = "score_start"
    /\ IdleParse
    /\ IdleHeader
    /\ IdleTypes
    /\ IdlePnl
    /\ IdleTable
    /\ row_values \in SeqsUpTo(ScoreCells, MaxCells) \cup {FullHeaderRow}
    /\ score = -1
    /\ prev_score = -1
    /\ IdleHelpers

\* score = row_score_for_header(row_values)
ScoreRow ==
    /\ pc = "score_start"
    /\ score' = row_score_for_header(row_values)
    /\ pc' = "scored"
    /\ UNCHANGED <<row_values, prev_score, parseVars, headerVars, typeVars, pnlVars, tableVars, auditVars, mainVars, helperVars>>

\* the same row with one more cell, scored again
ScoreRowWithCell ==
    /\ pc = "scored"
    /\ Len(row_values) <= MaxCells
    /\ \E c \in ScoreCells, p \in 0..Len(row_values) :
          /\ row_values' = insert_at(row_values, p, c)
          /\ score' = row_score_for_header(insert_at(row_values, p, c))
    /\ prev_score' = score
    /\ pc' = "rescored"
    /\ UNCHANGED <<parseVars, headerVars, typeVars, pnlVars, tableVars, auditVars, mainVars, helperVars>>

NextScore == ScoreRow \/ ScoreRowWithCell

SpecScore == InitScore /\ [][NextScore]_vars

(***************************** parsing script ******************************)

MaxTextLen == 3

ParseAlphabet == {"1", "0", ",", "(", ")", "-", ".", " "}

t_12_345      == <<"1","2",",","3","4","5">>
t_p2_119_020p == <<"(","2",",","1","1","9",",","0","2","0",")">>
t_abc         == <<"a","b","c">>
t_1_2__       == <<"1",",","2",",",",">>
t_pinfp       == <<"(","i","n","f",")">>
t_p1_5p       == <<"(","1",".","5",")">>
t_1_50        == <<"1",".","5","0">>

ParseTexts ==
    SeqsUpTo(ParseAlphabet, MaxTextLen)
    \cup {t_12_345, t_p2_119_020p, t_abc, t_1_2__, t_inf, t_nan, t_pinfp,
          t_p1_5p, t_1_50}

ParseCells ==
    {NaN} \cup {Int_(n) : n \in {-7, 0, 42}} \cup {Str_(cs) : cs \in ParseTexts}

InitParse ==
    /\ IdleAudit
    /\ IdleMain
    /\ pc = "parse_start"
    /\ x \in ParseCells
    /\ parsed = None
    /\ IdleScore
    /\ IdleHeader
    /\ IdleTypes
    /\ IdlePnl
    /\ IdleTable
    /\ IdleHelpers

\* parsed = parse_messy_number(x)
ParseCell ==
    /\ pc = "parse_start"
    /\ parsed' = parse_messy_number(x)
    /\ pc' = "parsed"
    /\ UNCHANGED <<x, scoreVars, headerVars, typeVars, pnlVars, tableVars, auditVars, mainVars, helperVars>>

NextParse == ParseCell

SpecParse == InitParse /\ [][NextParse]_vars

(***************************** header script *******************************)

MaxRows == 3

t_4001      == <<"4","0","0","1">>
t__Account_ == <<" ","A","c","c","o","u","n","t"," ">>

\* rows of a two-column sheet, by header score: 0, 4, 5, 5, 2, 8
HeaderSheetRows ==
    { <<NaN, NaN>>,
      <<Str_(t__Account_), NaN>>,
      <<Str_(t_Line_Item), Str_(t_Jan)>>,
      <<Str_(t_Account), Str_(t_feb)>>,
      <<Int_(4001), Str_(t_Total)>>,
      <<Str_(t_Account), Str_(t_Line_Item)>> }

TallRows == 12

\* sheets of TallRows rows that all score 5, but for one row that scores 8
\* and one blank row (the blank row alone when the two coincide)
TallSheets ==
    { [i \in 1..TallRows |->
          IF i = q THEN <<NaN, NaN>>
          ELSE IF i = p THEN <<Str_(t_Account), Str_(t_Line_Item)>>
          ELSE IF i % 2 = 0 THEN <<Str_(t_Line_Item), Str_(t_Jan)>>
          ELSE <<Str_(t_Account), Str_(t_feb)>>] : p, q \in 1..TallRows }

InitHeader ==
    /\ IdleAudit
    /\ IdleMain
    /\ pc = "header_start"
    /\ raw_df \in SeqsUpTo(HeaderSheetRows, MaxRows) \cup TallSheets
    /\ search_rows \in 0..MaxRows \cup {TallRows - 1, 60}
    /\ best = None
    /\ debug = None
    /\ IdleScore
    /\ IdleParse
    /\ IdleTypes
    /\ IdlePnl
    /\ IdleTable
    /\ IdleHelpers

\* header_row, debug = detect_header_row(raw, search_rows)
DetectHeader ==
    /\ pc = "header_start"
    /\ best' = detect_header_row(raw_df, search_rows)[1]
    /\ debug' = detect_header_row(raw_df, search_rows)[2]
    /\ pc' = "header_done"
    /\ UNCHANGED <<raw_df, search_rows, scoreVars, parseVars, typeVars, pnlVars, tableVars, auditVars, mainVars, helperVars>>

NextHeader == DetectHeader

SpecHeader == InitHeader /\ [][NextHeader]_vars

(***************************** row-type script *****************************)

MaxTableRows == 3

t_REVENUE        == <<"R","E","V","E","N","U","E">>
t_Total_Revenue  == <<"T","o","t","a","l"," ","R","e","v","e","n","u","e">>
t_TOTAL_REVENUE  == <<"T","O","T","A","L"," ","R","E","V","E","N","U","E">>
t_Revenue_Core   == <<"R","e","v","e","n","u","e"," ","-"," ","C","o","r","e">>
t_EBITDA         == <<"E","B","I","T","D","A">>
t_Net_income     == <<"N","e","t"," ","i","n","c","o","m","e">>
t_SECTIONTOTAL   == <<"S","E","C","T","I","O","N","T","O","T","A","L">>
t_12             == <<"1","2">>
t_Adj_gross_profit == <<"A","d","j","."," ","g","r","o","s","s"," ","p","r","o","f","i","t">>
t_Subtotal       == <<"S","u","b","t","o","t","a","l">>

\* rows of an extracted table, as [account, line] cells
TypeRows ==
    { [account |-> Str_(t_4001),         line |-> Str_(t_Revenue_Core)],
      [account |-> Int_(4001),           line |-> Str_(t_TOTAL_REVENUE)],
      [account |-> NaN,                  line |-> Str_(t_REVENUE)],
      [account |-> Str_(t_SECTIONTOTAL), line |-> Str_(t_Total_Revenue)],
      [account |-> NaN,                  line |-> Str_(t_TOTAL_REVENUE)],
      [account |-> Str_(t_12),           line |-> Str_(t_EBITDA)],
      [account |-> NaN,                  line |-> Str_(t_Net_income)],
      [account |-> NaN,                  line |-> Str_(t_Revenue_Core)],
      [account |-> NaN,                  line |-> Str_(t_Adj_gross_profit)],
      [account |-> NaN,                  line |-> Str_(t_Subtotal)],
      [account |-> NaN,                  line |-> NaN] }

InitTypes ==
    /\ IdleAudit
    /\ IdleMain
    /\ pc = "types_start"
    /\ df \in SeqsUpTo(TypeRows, MaxTableRows)
    /\ counts = None
    /\ IdleScore
    /\ IdleParse
    /\ IdleHeader
    /\ IdlePnl
    /\ IdleTable
    /\ IdleHelpers

\* pnl_counts = detect_pnl_row_types(df, account_col, line_col)
DetectRowTypes ==
    /\ pc = "types_start"
    /\ counts' = detect_pnl_row_types(df)
    /\ pc' = "types_done"
    /\ UNCHANGED <<df, scoreVars, parseVars, headerVars, pnlVars, tableVars, auditVars, mainVars, helperVars>>

NextTypes == DetectRowTypes

SpecTypes == InitTypes /\ [][NextTypes]_vars

(***************************** P&L script **********************************)

MaxSheetRows == 3

t_5002_sp     == <<" ","5","0","0","2"," ">>
t_Cost        == <<"C","o","s","t">>
t_dash        == <<"-">>

PnlWidths == {1, 2, 6, 14, 15}

PnlRowKinds == {"accountA", "accountB", "subtotal", "section", "blank"}

\* the scenario and year of a sheet; the years lie in the range a pandas
\* Timestamp holds, so that errors="coerce" never yields NaT
SheetLabels ==
    { <<"Actual", 2024>>, <<"Budget", 2023>>, <<"Actual", 2000>>, <<"Budget", 1900>> }

\* the header row of a sheet of n columns: Account | Line Item | the first
\* months | Total (a sheet of 14 columns has the twelve months and no Total)
sheet_header(n) ==
    [j \in 1..n |->
        IF j = 1 THEN Str_(t_Account)
        ELSE IF j = 2 THEN Str_(t_Line_Item)
        ELSE IF j = n /\ n # 14 THEN Str_(t_Total)
        ELSE Str_(MONTHS[j - 2])]

\* a data row of a sheet of n columns
sheet_row(kind, n) ==
    [j \in 1..n |->
        CASE kind = "accountA" ->
               IF j = 1 THEN Int_(4001)
               ELSE IF j = 2 THEN Str_(t_Revenue_Core)
               ELSE Int_(100 * (j - 2))
          [] kind = "accountB" ->
               IF j = 1 THEN Str_(t_5002_sp)
               ELSE IF j = 2 THEN Str_(t_Cost)
               ELSE IF j % 4 = 3 THEN Str_(t_12_345)
               ELSE IF j % 4 = 0 THEN Str_(t_dash)
               ELSE IF j % 4 = 1 THEN NaN
               ELSE Str_(t_p1_5p)
          [] kind = "subtotal" ->
               IF j = 1 THEN NaN
               ELSE IF j = 2 THEN Str_(t_Total_Revenue)
               ELSE Int_(7)
          [] kind = "section" ->
               IF j = 1 THEN Str_(t_REVENUE) ELSE NaN
          [] OTHER -> NaN]

PnlSheets ==
    { <<sheet_header(n)>> \o [i \in 1..Len(ks) |-> sheet_row(ks[i], n)] :
        n \in PnlWidths, ks \in SeqsUpTo(PnlRowKinds, MaxSheetRows) }

InitPnl ==
    /\ IdleAudit
    /\ IdleMain
    /\ pc = "pnl_start"
    /\ raw \in PnlSheets
    /\ \E lab \in SheetLabels : scenario = lab[1] /\ year = lab[2]
    /\ wide = None
    /\ info = None
    /\ long = None
    /\ IdleScore
    /\ IdleParse
    /\ IdleHeader
    /\ IdleTypes
    /\ IdleTable
    /\ IdleHelpers

\* the wide table built on the raw grid itself, the copy() left out: the
\* numbers parsed in the month and Total columns are written into the grid
CleanWideInPlace ==
    /\ pc = "pnl_start"
    /\ LET res   == clean_wide_pnl(raw, year, scenario)
           start == find_first_data_row(raw, 0, 80)
       IN  IF res.t = "return"
           THEN /\ wide' = res.first /\ info' = res.second /\ pc' = "pnl_cleaned"
                /\ raw' = [k \in 1..Len(raw) |-> [j \in 1..Len(raw[k]) |->
                             IF /\ start # None
                                /\ k > start.v
                                /\ \/ in_list(MONTHS, res.first.columns[j])
                                   \/ res.first.columns[j] = t_Total_col
                             THEN parse_messy_number(raw[k][j])
                             ELSE raw[k][j]]]
           ELSE wide' = res /\ info' = None /\ pc' = "pnl_raised" /\ raw' = raw
    /\ UNCHANGED <<scenario, year, long,
                   scoreVars, parseVars, headerVars, typeVars, tableVars, auditVars, mainVars, helperVars>>

\* wide, info = clean_wide_pnl(raw, year=year, scenario=scenario); an
\* exception raised by the call ends the script
CleanWide ==
    /\ pc = "pnl_start"
    /\ LET res == clean_wide_pnl(raw, year, scenario)
       IN  IF res.t = "return"
           THEN wide' = res.first /\ info' = res.second /\ pc' = "pnl_cleaned"
           ELSE wide' = res /\ info' = None /\ pc' = "pnl_raised"
    /\ UNCHANGED <<raw, scenario, year, long,
                   scoreVars, parseVars, headerVars, typeVars, tableVars, auditVars, mainVars, helperVars>>

\* long = wide_to_long_fact(wide)
WideToLong ==
    /\ pc = "pnl_cleaned"
    /\ long' = wide_to_long_fact(wide)
    /\ pc' = "pnl_done"
    /\ UNCHANGED <<raw, scenario, year, wide, info,
                   scoreVars, parseVars, headerVars, typeVars, tableVars, auditVars, mainVars, helperVars>>

NextPnl == CleanWide \/ WideToLong

SpecPnl == InitPnl /\ [][NextPnl]_vars

(***************************** account-code script *************************)

MaxCodeLen == 7

t_40a1     == <<"4","0","a","1">>
t_m400     == <<"-","4","0","0">>
t_p4001    == <<"+","4","0","0","1">>
t_4c001    == <<"4",",","0","0","1">>
t_4001d0   == <<"4","0","0","1",".","0">>
t_tab_4001 == <<"\t","4","0","0","1"," ">>

CodeTexts ==
    SeqsUpTo({"4", " "}, MaxCodeLen)
    \cup {t_40a1, t_m400, t_p4001, t_4c001, t_4001d0, t_tab_4001, t_abc}

CodeCells ==
    {NaN, Int_(12), Int_(400), Int_(4001), Int_(1234567), Int_(-400)}
    \cup {Str_(cs) : cs \in CodeTexts}

LineCells == {NaN, Str_(t_Revenue_Core), Str_(t_TOTAL_REVENUE)}

\* one row is given to the row-type count of script 01 as a table of one
\* row, or to script 02 as the second row of a sheet of two columns
InitRow ==
    /\ pc \in {"types_start", "pnl_start"}
    /\ \E a \in CodeCells, l \in LineCells :
          /\ df = <<[account |-> a, line |-> l]>>
          /\ raw = << <<Int_(4001), Str_(t_Cost)>>, <<a, l>> >>
    /\ counts = None
    /\ scenario = "Actual"
    /\ year = 2024
    /\ wide = None
    /\ info = None
    /\ long = None
    /\ IdleScore
    /\ IdleParse
    /\ IdleHeader
    /\ IdleTable
    /\ IdleAudit
    /\ IdleMain
    /\ IdleHelpers

NextRow == DetectRowTypes \/ CleanWide \/ WideToLong

SpecRow == InitRow /\ [][NextRow]_vars

(***************************** helpers script ******************************)

\* the cells given to the helpers that the two scripts both define
HelperCells == ParseCells \cup CodeCells

InitHelpers ==
    /\ pc = "parse_start"
    /\ x \in HelperCells
    /\ parsed = None
    /\ IdleHelpers
    /\ IdleScore
    /\ IdleHeader
    /\ IdleTypes
    /\ IdlePnl
    /\ IdleTable
    /\ IdleAudit
    /\ IdleMain

\* parse_messy_number(x) as 01_audit_workbook.py defines it
ParseCellAudit ==
    /\ pc = "parsed"
    /\ parsed_audit' = parse_messy_number_audit(x)
    /\ pc' = "parsed_audit"
    /\ UNCHANGED <<parseVars, reparsed, reparsed_audit, is_code_audit, is_code_pnl,
                   scoreVars, headerVars, typeVars, pnlVars, tableVars, auditVars,
                   mainVars>>

\* parse_messy_number of 02 called on the value it returned
ParseAgain ==
    /\ pc = "parsed_audit"
    /\ reparsed' = parse_messy_number(parsed)
    /\ pc' = "reparsed"
    /\ UNCHANGED <<parseVars, parsed_audit, reparsed_audit, is_code_audit, is_code_pnl,
                   scoreVars, headerVars, typeVars, pnlVars, tableVars, auditVars,
                   mainVars>>

\* parse_messy_number of 01 called on the value it returned
ParseAgainAudit ==
    /\ pc = "reparsed"
    /\ reparsed_audit' = parse_messy_number_audit(parsed_audit)
    /\ pc' = "reparsed_audit"
    /\ UNCHANGED <<parseVars, parsed_audit, reparsed, is_code_audit, is_code_pnl,
                   scoreVars, headerVars, typeVars, pnlVars, tableVars, auditVars,
                   mainVars>>

\* looks_like_account_code(x) of 01: x.strip() raises AttributeError when x
\* is not a str
LooksLikeCodeAudit ==
    /\ pc = "reparsed_audit"
    /\ is_code_audit' = IF x.t = "str" THEN looks_like_account_code_audit(x.s)
                        ELSE Raise("AttributeError")
    /\ pc' = "code_audit"
    /\ UNCHANGED <<parseVars, parsed_audit, reparsed, reparsed_audit, is_code_pnl,
                   scoreVars, headerVars, typeVars, pnlVars, tableVars, auditVars,
                   mainVars>>

\* looks_like_account_code(x) of 02
LooksLikeCodePnl ==
    /\ pc = "code_audit"
    /\ is_code_pnl' = looks_like_account_code_pnl(x)
    /\ pc' = "code_done"
    /\ UNCHANGED <<parseVars, parsed_audit, reparsed, reparsed_audit, is_code_audit,
                   scoreVars, headerVars, typeVars, pnlVars, tableVars, auditVars,
                   mainVars>>

NextHelpers ==
    \/ ParseCell
    \/ ParseCellAudit
    \/ ParseAgain
    \/ ParseAgainAudit
    \/ LooksLikeCodeAudit
    \/ LooksLikeCodePnl

SpecHelpers == InitHelpers /\ [][NextHelpers]_vars

(***************************** extraction script ***************************)

MaxGridRows == 3

t_x  == <<"x">>
t_sp == <<" ">>

ExtractCells == {NaN, Str_(t_sp), Str_(t_x)}

InitTable ==
    /\ IdleAudit
    /\ IdleMain
    /\ pc = "table_start"
    /\ raw_df \in SeqsUpTo([1..2 -> ExtractCells], MaxGridRows)
    /\ header_row \in -1..MaxGridRows
    /\ table = None
    /\ table2 = None
    /\ search_rows = 0
    /\ best = None
    /\ debug = None
    /\ IdleScore
    /\ IdleParse
    /\ IdleTypes
    /\ IdlePnl
    /\ IdleHelpers

\* df = extract_table_using_header(raw, header_row=header_row)
ExtractTable ==
    /\ pc = "table_start"
    /\ table' = extract_table_using_header(raw_df, header_row)
    /\ pc' = IF extract_table_using_header(raw_df, header_row).t = "raise"
             THEN "table_raised" ELSE "table_done"
    /\ UNCHANGED <<header_row, table2, headerVars,
                   scoreVars, parseVars, typeVars, pnlVars, auditVars, mainVars, helperVars>>

\* the blank-row and blank-column removal applied to the extracted table
DropBlankAgain ==
    /\ pc = "table_done"
    /\ table2' = drop_blank_rows_cols(table)
    /\ pc' = "table_redone"
    /\ UNCHANGED <<header_row, table, headerVars,
                   scoreVars, parseVars, typeVars, pnlVars, auditVars, mainVars, helperVars>>

NextTable == ExtractTable \/ DropBlankAgain

SpecTable == InitTable /\ [][NextTable]_vars

(***************************** sheet script *********************************)

MaxAuditRows == 2

t_Code        == <<"C","o","d","e">>
t_Description == <<"D","e","s","c","r","i","p","t","i","o","n">>
t_Report      == <<"R","e","p","o","r","t">>

AuditWidths == {2, 14}

HeaderKinds == {"full", "noaccount", "noline", "duplicate", "none"}

\* the first row of a sheet of n columns: the header of the sheet, the
\* header with one of its two key labels replaced or repeated, or a blank row
audit_header(kind, n) ==
    [j \in 1..n |->
        IF kind = "none" THEN NaN
        ELSE IF j = 1 /\ kind = "noaccount" THEN Str_(t_Code)
        ELSE IF j = 2 /\ kind = "noline" THEN Str_(t_Description)
        ELSE IF j = 2 /\ kind = "duplicate" THEN Str_(t_Account)
        ELSE sheet_header(n)[j]]

SmallSheets ==
    { <<audit_header(h, n)>> \o [i \in 1..Len(ks) |-> sheet_row(ks[i], n)] :
        h \in HeaderKinds, n \in AuditWidths,
        ks \in SeqsUpTo(PnlRowKinds, MaxAuditRows) }

\* sixty blank rows and then a header row, at index 60
DeepHeaderSheet == [i \in 1..61 |-> IF i = 61 THEN sheet_header(2) ELSE <<NaN, NaN>>]

\* a row of six cells that is blank, or blank but for a title
FillerRows ==
    { [j \in 1..6 |-> NaN],
      [j \in 1..6 |-> IF j = 1 THEN Str_(t_Report) ELSE NaN] }

EndToEndHeader ==
    <<Str_(t_Account), Str_(t_Line_Item), Str_(MONTHS[1]), Str_(MONTHS[2]),
      Str_(MONTHS[3]), Str_(t_Total)>>

EndToEndRow6 ==
    <<Str_(t_4001), Str_(t_Revenue_Core), Int_(100), Int_(200), Int_(300), Int_(600)>>

EndToEndRow7 ==
    <<Str_(t_SECTIONTOTAL), Str_(t_Total_Revenue), Int_(100), Int_(200), Int_(300),
      Int_(600)>>

\* the ten-row sheets whose rows 5, 6 and 7 are the header, the account row
\* and the subtotal row, the other rows being fillers
EndToEndSheets ==
    { [i \in 1..5 |-> f[i]] \o <<EndToEndHeader, EndToEndRow6, EndToEndRow7>>
        \o <<f[6], f[7]>> : f \in [1..7 -> FillerRows] }

InitSheet ==
    /\ pc = "sheet_start"
    /\ raw_df \in SmallSheets \cup EndToEndSheets \cup {<<>>, DeepHeaderSheet}
    /\ search_rows = 60
    /\ best = None
    /\ debug = None
    /\ audit = None
    /\ raw = raw_df
    /\ scenario = "Actual"
    /\ year = 2024
    /\ wide = None
    /\ info = None
    /\ long = None
    /\ IdleScore
    /\ IdleParse
    /\ IdleTypes
    /\ IdleTable
    /\ IdleMain
    /\ IdleHelpers

\* script 01 on the sheet: a = audit_sheet(xls_path, s); script 02 then
\* reads the same sheet
AuditSheet ==
    /\ pc = "sheet_start"
    /\ audit' = audit_sheet(raw_df)
    /\ pc' = "pnl_start"
    /\ UNCHANGED <<headerVars, scoreVars, parseVars, typeVars, pnlVars, tableVars,
                   mainVars, helperVars>>

NextSheet == AuditSheet \/ CleanWide \/ WideToLong

SpecSheet == InitSheet /\ [][NextSheet]_vars

(***************************** selection script ****************************)

MaxSheets == 2

n_Actual_2024        == <<"A","c","t","u","a","l"," ","P","&","L"," ","2","0","2","4">>
n_Budget_2021        == <<"B","u","d","g","e","t"," ","P","&","L"," ","2","0","2","1">>
n_budget_pl_2023     == <<"b","u","d","g","e","t"," ","p","&","l"," ","2","0","2","3">>
n_ACTUAL_2020        == <<"A","C","T","U","A","L"," ","P","&","L"," ","2","0","2","0">>
n_padded_2022        == <<" ","A","c","t","u","a","l"," ","P","&","L"," ","2","0","2","2"," ">>
n_wide_gaps_2019     == <<"A","c","t","u","a","l"," "," ","P","&","L","\t","2","0","1","9">>
n_Quarterly_Summary  == <<"Q","u","a","r","t","e","r","l","y"," ","S","u","m","m","a","r","y">>
n_year_3_digits      == <<"A","c","t","u","a","l"," ","P","&","L"," ","2","0","2">>
n_year_5_digits      == <<"A","c","t","u","a","l"," ","P","&","L"," ","2","0","2","4","5">>
n_text_after         == <<"A","c","t","u","a","l"," ","P","&","L"," ","2","0","2","4"," ","v","2">>
n_text_before        == <<"M","y"," ","A","c","t","u","a","l"," ","P","&","L"," ","2","0","2","4">>
n_no_gap             == <<"A","c","t","u","a","l","P","&","L"," ","2","0","2","4">>
n_Forecast_2024      == <<"F","o","r","e","c","a","s","t"," ","P","&","L"," ","2","0","2","4">>
n_PnL_2024           == <<"A","c","t","u","a","l"," ","P","n","L"," ","2","0","2","4">>
n_year_letter        == <<"A","c","t","u","a","l"," ","P","&","L"," ","2","O","2","4">>

SheetNames ==
    {n_Actual_2024, n_Budget_2021, n_budget_pl_2023, n_ACTUAL_2020,
     n_padded_2022, n_wide_gaps_2019, n_Quarterly_Summary, n_year_3_digits,
     n_year_5_digits, n_text_after, n_text_before, n_no_gap,
     n_Forecast_2024, n_PnL_2024, n_year_letter}

\* the workbooks of up to MaxSheets sheets, no two of one name
Workbooks ==
    {wb \in SeqsUpTo([sheet_name : SheetNames, grid : {<<>>}], MaxSheets) :
        \A i, j \in 1..Len(wb) : i # j => wb[i].sheet_name # wb[j].sheet_name}

InitSelect ==
    /\ pc = "select_start"
    /\ xls \in Workbooks
    /\ sheets = None
    /\ sheet_i = 0
    /\ all_infos = <<>>
    /\ all_long = <<>>
    /\ fact = None
    /\ IdleScore
    /\ IdleParse
    /\ IdleHeader
    /\ IdleTypes
    /\ IdlePnl
    /\ IdleTable
    /\ IdleAudit
    /\ IdleHelpers

\* sheets = detect_pnl_sheets(xls_path)
DetectPnlSheets ==
    /\ pc = "select_start"
    /\ sheets' = detect_pnl_sheets(xls)
    /\ pc' = "select_done"
    /\ UNCHANGED <<xls, sheet_i, all_infos, all_long, fact, scoreVars, parseVars,
                   headerVars, typeVars, pnlVars, tableVars, auditVars, helperVars>>

NextSelect == DetectPnlSheets

SpecSelect == InitSelect /\ [][NextSelect]_vars

(***************************** batch script ********************************)

MaxBatch == 2

BatchNames == {n_Actual_2024, n_Budget_2021, n_budget_pl_2023, n_Quarterly_Summary}

\* sheets with account rows (of 14, 2 and 1 columns) and sheets without any:
\* a header over a subtotal row, and the empty sheet
BatchGrids ==
    { <<sheet_header(14), sheet_row("accountA", 14), sheet_row("subtotal", 14)>>,
      <<sheet_header(14), sheet_row("section", 14), sheet_row("accountB", 14)>>,
      <<sheet_header(2), sheet_row("accountA", 2)>>,
      <<sheet_header(1), sheet_row("accountA", 1)>>,
      <<sheet_header(14), sheet_row("subtotal", 14)>>,
      <<>> }

\* the workbooks of up to MaxBatch sheets, no two of one name
BatchWorkbooks ==
    {wb \in SeqsUpTo([sheet_name : BatchNames, grid : BatchGrids], MaxBatch) :
        \A i, j \in 1..Len(wb) : i # j => wb[i].sheet_name # wb[j].sheet_name}

InitBatch ==
    /\ pc = "main_start"
    /\ xls \in BatchWorkbooks
    /\ sheets = None
    /\ sheet_i = 0
    /\ all_infos = <<>>
    /\ all_long = <<>>
    /\ fact = None
    /\ IdlePnl
    /\ IdleScore
    /\ IdleParse
    /\ IdleHeader
    /\ IdleTypes
    /\ IdleTable
    /\ IdleAudit
    /\ IdleHelpers

\* lines 168-173: the sheets are selected; no sheet selected raises ValueError
MainStart ==
    /\ pc = "main_start"
    /\ sheets' = detect_pnl_sheets(xls)
    /\ pc' = IF detect_pnl_sheets(xls) = <<>> THEN "main_raised" ELSE "main_loop"
    /\ UNCHANGED <<xls, sheet_i, all_infos, all_long, fact, scoreVars, parseVars,
                   headerVars, typeVars, pnlVars, tableVars, auditVars, helperVars>>

\* lines 175-193: one turn of the loop over the sheets; an exception raised
\* by clean_wide_pnl leaves main
ProcessSheet ==
    /\ pc = "main_loop"
    /\ sheet_i < Len(sheets)
    /\ LET sh  == sheets[sheet_i + 1]
           res == clean_wide_pnl(read_excel(xls, sh.sheet_name), sh.year, sh.scenario)
       IN  /\ raw' = read_excel(xls, sh.sheet_name)
           /\ scenario' = sh.scenario
           /\ year' = sh.year
           /\ IF res.t = "return"
              THEN /\ wide' = res.first
                   /\ info' = res.second @@ [sheet_name |-> sh.sheet_name]
                   /\ all_infos' = Append(all_infos,
                                          res.second @@ [sheet_name |-> sh.sheet_name])
                   /\ long' = wide_to_long_fact(res.first)
                   /\ all_long' = Append(all_long, wide_to_long_fact(res.first))
                   /\ sheet_i' = sheet_i + 1
                   /\ pc' = "main_loop"
              ELSE /\ wide' = res
                   /\ pc' = "main_raised"
                   /\ UNCHANGED <<info, long, all_infos, all_long, sheet_i>>
    /\ UNCHANGED <<xls, sheets, fact, scoreVars, parseVars, headerVars, typeVars,
                   tableVars, auditVars, helperVars>>

\* lines 195-198: fact = pd.concat(all_long, ignore_index=True)
CombineFacts ==
    /\ pc = "main_loop"
    /\ sheet_i = Len(sheets)
    /\ fact' = concat(all_long)
    /\ pc' = "main_done"
    /\ UNCHANGED <<xls, sheets, sheet_i, all_infos, all_long, scoreVars, parseVars,
                   headerVars, typeVars, pnlVars, tableVars, auditVars, helperVars>>

NextBatch == MainStart \/ ProcessSheet \/ CombineFacts

SpecBatch == InitBatch /\ [][NextBatch]_vars

(***************************** claims **************************************)

eq_nocase(a, b) == lower(a) = lower(b)

t_Actual_word == <<"A","c","t","u","a","l">>
t_Budget_word == <<"B","u","d","g","e","t">>

\* the header score of row i (0-based) of the grid
RowScore(grid, i) ==
    row_score_for_header([j \in 1..Len(grid[i + 1]) |-> normalize_text(grid[i + 1][j])])

\* the rows within the search depth that score above 0
Candidates(grid, d) ==
    {i \in 0..(Min(d, Len(grid)) - 1) : RowScore(grid, i) > 0}

\* C1: the header index returned is a row of maximum score among the rows
\* below the search depth that score above 0, the smallest index among the
\* rows of that score, and never an index at or beyond the depth.
C1_BestIsEarliestMaximum ==
    pc = "header_done" =>
        LET S == Candidates(raw_df, search_rows)
        IN  /\ (S = {} => best = None)
            /\ (S # {} =>
                  /\ best.t = "int"
                  /\ best.v \in S
                  /\ best.v < search_rows
                  /\ \A j \in S :
                        /\ RowScore(raw_df, best.v) >= RowScore(raw_df, j)
                        /\ (RowScore(raw_df, j) = RowScore(raw_df, best.v)
                              => best.v <= j))

\* two rows share the top score and the earlier one is returned
C1_Witness ==
    /\ pc = "header_done"
    /\ best = Int_(1)
    /\ Len(raw_df) = 3
    /\ RowScore(raw_df, 1) = 5
    /\ RowScore(raw_df, 2) = 5
    /\ search_rows = 3

B(p) == IF p THEN 1 ELSE 0

RECURSIVE MonthCells(_)
MonthCells(rv) ==
    IF rv = <<>> THEN 0
    ELSE B(\E m \in 1..12 : eq_nocase(Head(rv), MONTHS[m]))
         + MonthCells(Tail(rv))

HasCell(rv, t) == \E i \in 1..Len(rv) : eq_nocase(rv[i], t)

SignalSum(rv) ==
      4 * B(HasCell(rv, t_Account))
    + 4 * B(\/ HasCell(rv, t_Line_Item)
            \/ \E i \in 1..Len(rv) :
                 \/ eq_nocase(remove_char(rv[i], " "), T_LINEITEM)
                 \/ eq_nocase(remove_char(rv[i], " "), T_LINEITEMS))
    + MonthCells(rv)
    + 2 * B(HasCell(rv, t_Total))

\* C2: the header score of a row is 4*[a cell is ACCOUNT] + 4*[a cell is
\* LINE ITEM / LINEITEM(S) without spaces] + one per month cell + 2*[a cell
\* is TOTAL], each bonus added once; Account, Line Item, Jan..Dec, Total
\* scores 22.
C2_ScoreIsSignalSum ==
    pc \in {"scored", "rescored"} =>
        /\ score = SignalSum(row_values)
        /\ (row_values = FullHeaderRow => score = 22)

C2_Witness ==
    pc = "scored" /\ row_values = FullHeaderRow /\ score = 22

\* C3: adding a cell to a row, at any position, never lowers its header score.
C3_ScoreMonotone ==
    pc = "rescored" => score >= prev_score

C3_Witness ==
    pc = "rescored" /\ Len(row_values) = MaxCells + 1 /\ score > prev_score

\* C6: the four row-type counts add up to the number of rows:
\* account + section headers + subtotals + other = total.
C6_CountsPartitionRows ==
    pc = "types_done" =>
        counts.rows_account + counts.rows_section_headers
          + counts.rows_subtotals + counts.rows_other_nonaccount
        = counts.rows_total

\* C10: blank-row and blank-column removal applied to an extracted table
\* changes nothing: no row and no column is dropped by the second pass.
C10_BlankRemovalIdempotent ==
    pc = "table_redone" => table2 = table

(* unpivoting, stated on the sheet *)

\* a cell holding 3 to 6 decimal digits and nothing else around them but
\* blanks
DigitCode(c) ==
    \/ c.t = "int" /\ c.v >= 100 /\ c.v <= 999999
    \/ /\ c.t = "str"
       /\ LET cs == SelectSeq(c.s, LAMBDA ch : ch # " ")
          IN  /\ Len(cs) \in 3..6
              /\ \A i \in 1..Len(cs) : is_digit(cs[i])
              /\ strip(c.s) = cs

\* the indices (1-based) of the account rows of a sheet
AccountRowsOf(grid) == {i \in 1..Len(grid) : DigitCode(grid[i][1])}

\* the columns (1-based) of a sheet whose header cell is a month name
MonthColumnsOf(grid) ==
    {j \in 1..Len(grid[1]) :
        grid[1][j].t = "str" /\ \E m \in 1..12 : eq_nocase(strip(grid[1][j].s), MONTHS[m])}

\* C7: a sheet with A account rows and M month columns (any M in 0..12)
\* unpivots to exactly A*M fact rows, one per (account row, month column),
\* each with the normalized value of that cell as its amount.
C7_UnpivotYieldsAxM ==
    pc = "pnl_done" =>
        /\ Len(long) = Cardinality(AccountRowsOf(raw)) * Cardinality(MonthColumnsOf(raw))
        /\ \A i \in AccountRowsOf(raw), j \in MonthColumnsOf(raw) :
              \E p \in 1..Len(long) :
                  /\ long[p].Account = raw[i][1]
                  /\ eq_nocase(long[p].Month, strip(raw[1][j].s))
                  /\ long[p].Amount = parse_messy_number(raw[i][j])

\* C8: every fact row comes from an account row: its account cell and line
\* item are those of a sheet row whose account cell is 3 to 6 digits, and no
\* fact row carries the cells of a row that is not an account row.
C8_FactsOnlyFromAccountRows ==
    pc = "pnl_done" =>
        /\ \A p \in 1..Len(long) :
              \E i \in AccountRowsOf(raw) :
                  long[p].Account = raw[i][1] /\ long[p].Line_Item = raw[i][2]
        /\ \A i \in (1..Len(raw)) \ AccountRowsOf(raw) :
              \A p \in 1..Len(long) :
                  ~(long[p].Account = raw[i][1] /\ long[p].Line_Item = raw[i][2])

\* facts were produced from a sheet that has a subtotal row below an
\* account row
C8_Witness ==
    /\ pc = "pnl_done"
    /\ Len(long) = 12
    /\ Len(raw) = 3
    /\ raw[2][1] = Int_(4001)
    /\ raw[3][2] = Str_(t_Total_Revenue)

\* C9: within one sheet no two fact rows share (account code, month).
C9_OneFactPerAccountMonth ==
    pc = "pnl_done" =>
        \A p, q \in 1..Len(long) :
            p # q =>
                ~(/\ normalize_text(long[p].Account) = normalize_text(long[q].Account)
                  /\ long[p].Month = long[q].Month)

(* numeric normalisation, stated on its own terms *)

\* the value of a digit string read from the left
RECURSIVE Horner(_, _)
Horner(ds, acc) ==
    IF ds = <<>> THEN acc
    ELSE Horner(Tail(ds), acc * 10 + digit_val(Head(ds)))

\* text of the shape digits[.digits] (one of the parts may be empty, not both)
IsPlainDecimal(cs) ==
    /\ \E i \in 1..Len(cs) : is_digit(cs[i])
    /\ \A i \in 1..Len(cs) : is_digit(cs[i]) \/ cs[i] = "."
    /\ \A i, j \in 1..Len(cs) : cs[i] = "." /\ cs[j] = "." => i = j

\* the float a plain decimal denotes
PlainDecimalValue(cs) ==
    LET nfrac == IF \E i \in 1..Len(cs) : cs[i] = "."
                 THEN Len(cs) - (CHOOSE i \in 1..Len(cs) : cs[i] = ".")
                 ELSE 0
    IN  canon(FALSE, Horner(remove_char(cs, "."), 0), nfrac)

\* a plain decimal with an optional sign in front
IsSignedDecimal(cs) ==
    \/ IsPlainDecimal(cs)
    \/ Len(cs) >= 2 /\ cs[1] \in {"+", "-"} /\ IsPlainDecimal(Tail(cs))

SignedDecimalValue(cs) ==
    IF cs[1] = "-" THEN [PlainDecimalValue(Tail(cs)) EXCEPT !.neg = TRUE]
    ELSE IF cs[1] = "+" THEN PlainDecimalValue(Tail(cs))
    ELSE PlainDecimalValue(cs)

Parenthesized(cs) == Len(cs) >= 1 /\ cs[1] = "(" /\ cs[Len(cs)] = ")"

Unwrapped(cs) == SelectSeq(cs, LAMBDA c : c \notin {"(", ")", ","})

\* C4: "12,345" -> 12345.0, "(2,119,020)" -> -2119020.0, "-" and "" ->
\* absence, 42 -> 42.0; a text whose remainder (parentheses and commas
\* removed, trimmed) is a decimal yields that decimal, negated exactly when
\* the trimmed text both starts with "(" and ends with ")".
C4_NormalizeExamplesAndSign ==
    pc = "parsed" =>
        /\ (x = Str_(t_12_345) => parsed = Fin(FALSE, 12345, 0))
        /\ (x = Str_(t_p2_119_020p) => parsed = Fin(TRUE, 2119020, 0))
        /\ (x \in {Str_(<<"-">>), Str_(<<>>)} => parsed = None)
        /\ (x = Int_(42) => parsed = Fin(FALSE, 42, 0))
        /\ (x.t = "str" /\ IsSignedDecimal(strip(Unwrapped(strip(x.s)))) =>
               LET d == SignedDecimalValue(strip(Unwrapped(strip(x.s))))
               IN  parsed = IF Parenthesized(strip(x.s))
                            THEN [d EXCEPT !.neg = ~d.neg]
                            ELSE d)

\* a text with a lone opening parenthesis, parsed and not negated
C4_Witness ==
    /\ pc = "parsed"
    /\ x = Str_(<<"(", "1", "0">>)
    /\ parsed = Fin(FALSE, 10, 0)

\* C5: normalisation never raises: the outcome is a float or the absence
\* marker, and a text whose remainder float() rejects yields absence.
C5_NormalizeNeverRaises ==
    pc = "parsed" =>
        /\ parsed.t \in {"float", "None"}
        /\ (x.t = "str" /\ float_of_str(strip(Unwrapped(strip(x.s)))).t = "raise"
               => parsed = None)

\* "(-)": the remainder "-" is rejected by float() and absence is returned
C5_Witness ==
    /\ pc = "parsed"
    /\ x = Str_(<<"(", "-", ")">>)
    /\ parsed = None

(* the end-to-end scenario *)

\* the fact rows of a month, in order
FactsOfMonth(facts, m) == SelectSeq(facts, LAMBDA r : r.Month = m)

\* C11: for a ten-row grid whose row 5 is Account, Line Item, Jan, Feb, Mar,
\* Total, whose row 6 is 4001, Revenue - Core, 100, 200, 300, 600 and whose
\* row 7 is SECTIONTOTAL, Total Revenue, 100, 200, 300, 600, the header
\* locator returns 5, row 6 is classified Account and row 7 Subtotal, and
\* the unpivot step emits exactly 3 fact rows, all of account 4001, with
\* amounts 100.0, 200.0, 300.0 for Jan, Feb, Mar.
C11_EndToEndScenario ==
    pc = "pnl_done" /\ raw_df \in EndToEndSheets =>
        /\ audit.t = "SheetAudit"
        /\ audit.detected_header_row = Int_(5)
        /\ row_is_account([account |-> raw_df[7][1], line |-> raw_df[7][2]])
        /\ row_is_subtotal([account |-> raw_df[8][1], line |-> raw_df[8][2]])
        /\ audit.pnl_row_type_counts.rows_account = 1
        /\ audit.pnl_row_type_counts.rows_subtotals = 1
        /\ Len(long) = 3
        /\ \A p \in 1..Len(long) : long[p].Account = Str_(t_4001)
        /\ \A k \in 1..3 :
              LET fs == FactsOfMonth(long, MONTHS[k])
              IN  Len(fs) = 1 /\ fs[1].Amount = Fin(FALSE, 100 * k, 0)

(* sheet selection, stated on the words of a name *)

\* the words of a text: its maximal runs of characters that are not blanks
RECURSIVE Tokens(_)
Tokens(cs) ==
    IF cs = <<>> THEN <<>>
    ELSE IF Head(cs) \in Whitespace THEN Tokens(Tail(cs))
    ELSE LET stops == {i \in 1..Len(cs) : cs[i] \in Whitespace}
             n     == IF stops = {} THEN Len(cs) + 1
                      ELSE CHOOSE i \in stops : \A j \in stops : i <= j
         IN  <<SubSeq(cs, 1, n - 1)>> \o Tokens(SubSeq(cs, n, Len(cs)))

\* <Scenario> P&L <Year>: three words, Actual or Budget, P&L, four digits
HasPnlShape(cs) ==
    LET tk == Tokens(cs)
    IN  /\ Len(tk) = 3
        /\ eq_nocase(tk[1], t_Actual_word) \/ eq_nocase(tk[1], t_Budget_word)
        /\ eq_nocase(tk[2], <<"P","&","L">>)
        /\ Len(tk[3]) = 4
        /\ \A i \in 1..4 : is_digit(tk[3][i])

\* the names of a workbook that have the shape, in workbook order
PnlNamesOf(book) ==
    SelectSeq([k \in 1..Len(book) |-> book[k].sheet_name], HasPnlShape)

\* C12: the sheets selected are, in workbook order, exactly the names of the
\* shape <Scenario> P&L <Year> (Actual or Budget in any letter case, a year
\* of exactly four digits), each paired with the scenario Actual or Budget
\* and the year as a number; every other name is left out; "Actual P&L 2024"
\* gives scenario Actual and year 2024, "Quarterly Summary" is left out.
C12_SelectsExactlyPnlNames ==
    pc = "select_done" =>
        LET want == PnlNamesOf(xls)
        IN  /\ Len(sheets) = Len(want)
            /\ \A k \in 1..Len(want) :
                  /\ sheets[k].sheet_name = want[k]
                  /\ sheets[k].scenario \in {t_Actual_word, t_Budget_word}
                  /\ eq_nocase(sheets[k].scenario, Tokens(want[k])[1])
                  /\ sheets[k].year = Horner(Tokens(want[k])[3], 0)
            /\ \A k \in 1..Len(sheets) :
                  /\ sheets[k].sheet_name
                        \notin {n_Quarterly_Summary, n_year_3_digits, n_year_5_digits,
                                n_text_after, n_text_before}
                  /\ (sheets[k].sheet_name = n_Actual_2024 =>
                        sheets[k].scenario = t_Actual_word /\ sheets[k].year = 2024)

\* a workbook of two sheets, the first one not a P&L sheet, the second one
\* named in lower case
C12_Witness ==
    /\ pc = "select_done"
    /\ Len(xls) = 2
    /\ xls[1].sheet_name = n_Quarterly_Summary
    /\ xls[2].sheet_name = n_budget_pl_2023
    /\ sheets = <<[sheet_name |-> n_budget_pl_2023, scenario |-> t_Budget_word,
                   year |-> 2023]>>

(* a sheet without a header *)

\* C13: when no row within the search depth scores above 0 (the empty grid
\* included), the header locator returns None with an empty candidate list
\* and nothing is raised; audit_sheet skips extraction and classification and
\* still returns its record for the sheet.
C13_NoHeaderIsNotFatal ==
    pc # "sheet_start" /\ Candidates(raw_df, 60) = {} =>
        /\ audit.t = "SheetAudit"
        /\ audit.raw_shape[1] = Len(raw_df)
        /\ audit.detected_header_row = None
        /\ audit.header_debug.candidates_top10 = <<>>
        /\ audit.header_debug.best_row_index = None
        /\ audit.extracted_shape = None
        /\ audit.columns = <<>>
        /\ audit.pnl_row_type_counts = None

\* the only header row of the sheet lies beyond the search depth
C13_Witness ==
    /\ pc = "pnl_start"
    /\ raw_df = DeepHeaderSheet
    /\ RowScore(raw_df, 60) > 0
    /\ audit.t = "SheetAudit"
    /\ audit.detected_header_row = None

(* table extraction, stated on the grid *)

\* C14: a header row index outside the valid row indices of the grid (at or
\* beyond the row count, or negative) makes extract_table raise: no table is
\* returned for it.
C14_InvalidHeaderIndexRaises ==
    pc \in {"table_done", "table_raised", "table_redone"} =>
        (header_row < 0 \/ header_row >= Len(raw_df) => table.t = "raise")

(* a sheet without its key columns *)

\* a label names the account column, or the line-item column
IsAccountLabel(c) == eq_nocase(strip(c), t_Account)

IsLineItemLabel(c) ==
    \/ eq_nocase(remove_char(strip(c), " "), T_LINEITEM)
    \/ eq_nocase(remove_char(strip(c), " "), T_LINEITEMS)

\* the extracted table lacks the account column or the line-item column
KeyColumnMissing(cols) ==
    \/ \A j \in 1..Len(cols) : ~IsAccountLabel(cols[j])
    \/ \A j \in 1..Len(cols) : ~IsLineItemLabel(cols[j])

\* C15: when the account column or the line-item column of the extracted
\* table cannot be resolved, row classification is skipped without error (no
\* counts), the table passes through, and unpivoting the sheet yields no
\* fact row.
C15_MissingColumnsYieldNoFacts ==
    pc = "pnl_done" /\ audit.t = "SheetAudit" /\ audit.detected_header_row # None
       /\ KeyColumnMissing(audit.columns) =>
        /\ audit.pnl_row_type_counts = None
        /\ audit.extracted_shape # None
        /\ long = <<>>

(* a batch of sheets *)

\* the long facts of the selected sheets of a workbook, sheet after sheet
RECURSIVE FactsOfSheets(_, _)
FactsOfSheets(book, sel) ==
    IF sel = <<>> THEN <<>>
    ELSE LET sh == sel[Len(sel)]
         IN  FactsOfSheets(book, SubSeq(sel, 1, Len(sel) - 1))
             \o wide_to_long_fact(
                    clean_wide_pnl(read_excel(book, sh.sheet_name), sh.year,
                                   sh.scenario).first)

\* a sheet in which no row has an account code
Unparseable(grid) == AccountRowsOf(grid) = {}

\* the workbook without its unparseable sheets
ParseableBook(book) == SelectSeq(book, LAMBDA sh : ~Unparseable(sh.grid))

\* C16: in a batch of selected sheets a sheet without an account-code row
\* does not stop the run: nothing is raised for it, it is listed in the
\* per-sheet diagnostics with a reason and with no fact row, the sheets
\* after it are processed, and the facts collected are at every turn, and
\* at the end, those of the run without the unparseable sheets.
C16_UnparseableSheetDoesNotStopRun ==
    /\ (pc = "main_raised" /\ sheets # <<>> =>
           ~Unparseable(read_excel(xls, sheets[sheet_i + 1].sheet_name)))
    /\ (pc \in {"main_loop", "main_done", "main_raised"} =>
           \A k \in 1..sheet_i :
               /\ all_infos[k].sheet_name = sheets[k].sheet_name
               /\ (Unparseable(read_excel(xls, sheets[k].sheet_name)) =>
                      /\ "error" \in DOMAIN all_infos[k]
                      /\ all_long[k] = <<>>))
    /\ (pc \in {"main_loop", "main_done"} =>
           /\ Len(all_infos) = sheet_i
           /\ concat(all_long)
                = FactsOfSheets(xls,
                    SelectSeq(SubSeq(sheets, 1, sheet_i),
                              LAMBDA sh : ~Unparseable(read_excel(xls, sh.sheet_name)))))
    /\ (pc = "main_done" =>
           /\ sheet_i = Len(sheets)
           /\ fact = FactsOfSheets(ParseableBook(xls),
                                   detect_pnl_sheets(ParseableBook(xls))))

\* an unparseable sheet first, then a sheet with an account row
C16_Witness ==
    /\ pc = "main_done"
    /\ Len(sheets) = 2
    /\ Unparseable(read_excel(xls, sheets[1].sheet_name))
    /\ "error" \in DOMAIN all_infos[1]
    /\ ~Unparseable(read_excel(xls, sheets[2].sheet_name))
    /\ Len(all_long[2]) = 12
    /\ fact = all_long[2]

(* row types, stated on the cells of a row *)

\* a cell holding one word of 3 to 6 decimal digits and nothing else
IsAccountCode(c) ==
    /\ c.t \in {"int", "str"}
    /\ LET tk == Tokens(str_cell(c))
       IN  /\ Len(tk) = 1
           /\ Len(tk[1]) \in 3..6
           /\ \A i \in 1..Len(tk[1]) : is_digit(tk[1][i])

\* the line-item text of a row, trimmed (empty for an empty cell)
LineText(r) == IF r.line.t = "nan" THEN <<>> ELSE strip(str_cell(r.line))

HasLetter(cs) == \E i \in 1..Len(cs) : upper_char(cs[i]) # lower_char(cs[i])

\* non-empty and entirely upper-case
IsAllCaps(cs) == HasLetter(cs) /\ cs = upper(cs)

StartsWithNoCase(cs, pre) ==
    Len(cs) >= Len(pre) /\ eq_nocase(SubSeq(cs, 1, Len(pre)), pre)

ContainsNoCase(cs, sub) ==
    \E i \in 1..(Len(cs) - Len(sub) + 1) :
        eq_nocase(SubSeq(cs, i, i + Len(sub) - 1), sub)

\* the text of an aggregate line
IsAggregateText(cs) ==
    \/ StartsWithNoCase(cs, t_Total)
    \/ ContainsNoCase(cs, <<"G","r","o","s","s"," ","P","r","o","f","i","t">>)
    \/ ContainsNoCase(cs, t_EBITDA)
    \/ ContainsNoCase(cs, <<"N","e","t"," ","I","n","c","o","m","e">>)

\* the one tag of a row: Account > SectionHeader > Subtotal > Other
TagOf(r) ==
    IF IsAccountCode(r.account) THEN "Account"
    ELSE IF IsAllCaps(LineText(r)) THEN "SectionHeader"
    ELSE IF IsAggregateText(LineText(r)) THEN "Subtotal"
    ELSE "Other"

Tagged(rows, tag) == Cardinality({i \in 1..Len(rows) : TagOf(rows[i]) = tag})

\* C17: each row has exactly one tag, by the priority Account > SectionHeader
\* > Subtotal > Other: the section-header count and the subtotal count are
\* the numbers of rows with that tag, so no row is counted in both (a
\* non-account row TOTAL REVENUE only as a section header) and no account
\* row is counted in either.
C17_OneTagPerRowByPriority ==
    pc = "types_done" =>
        /\ counts.rows_account = Tagged(df, "Account")
        /\ counts.rows_section_headers = Tagged(df, "SectionHeader")
        /\ counts.rows_subtotals = Tagged(df, "Subtotal")
        /\ counts.rows_account + counts.rows_section_headers
             + counts.rows_subtotals <= counts.rows_total

\* C19: every non-account row whose line-item text starts with Total or
\* contains Gross Profit, EBITDA or Net Income, in any letter case, is
\* counted as a subtotal, and no other row is; the rows Total Revenue and
\* EBITDA are among them.
C19_AggregateRowsAreSubtotals ==
    pc = "types_done" =>
        /\ counts.rows_subtotals
             = Cardinality({i \in 1..Len(df) :
                   ~IsAccountCode(df[i].account) /\ IsAggregateText(LineText(df[i]))})
        /\ \A i \in 1..Len(df) :
              /\ ~IsAccountCode(df[i].account)
              /\ df[i].line \in {Str_(t_Total_Revenue), Str_(t_EBITDA)}
              => counts.rows_subtotals >= 1

\* a table of the rows Total Revenue, EBITDA and Net income, none of them
\* an account row, and a row that is no aggregate
C19_Witness ==
    /\ pc = "types_done"
    /\ Len(df) = 3
    /\ df[1].line = Str_(t_EBITDA)
    /\ df[2].line = Str_(t_Subtotal)
    /\ df[3].line = Str_(t_Net_income)
    /\ counts.rows_subtotals = 2

\* C18: a row is tagged Account exactly when its account-code cell, trimmed,
\* is 3 to 6 decimal digits and nothing else, whatever its line item is: by
\* the row-type count of script 01 and by the IsAccountRow column of script 02.
C18_AccountIffDigitCode ==
    /\ (pc = "types_done" =>
           counts.rows_account = B(IsAccountCode(df[1].account)))
    /\ (pc \in {"pnl_cleaned", "pnl_done"} =>
           /\ wide.rows[1].IsAccountRow
           /\ info.account_rows = 1 + B(IsAccountCode(raw[2][1]))
           /\ IF Len(wide.rows) = 2
              THEN wide.rows[2].IsAccountRow = IsAccountCode(raw[2][1])
              ELSE ~IsAccountCode(raw[2][1]))

\* a padded code of four digits beside an upper-case aggregate line
C18_Witness ==
    /\ pc = "types_done"
    /\ df[1].account = Str_(<<" ","4","4","4","4"," ">>)
    /\ df[1].line = Str_(t_TOTAL_REVENUE)
    /\ counts.rows_account = 1
    /\ counts.rows_section_headers = 0

\* a cell that is empty or holds only blanks
IsBlankCell(c) == c.t = "nan" \/ (c.t = "str" /\ strip(c.s) = <<>>)

\* the rows below row h (0-based) that are not blank throughout
DataRowsBelow(grid, h) ==
    SelectSeq(SubSeq(grid, h + 2, Len(grid)),
              LAMBDA r : \E j \in 1..Len(r) : ~IsBlankCell(r[j]))

\* the columns (1-based) that are not blank throughout those rows
DataColumns(grid, h) ==
    SelectSeq([j \in 1..Len(grid[h + 1]) |-> j],
              LAMBDA j : \E k \in 1..Len(DataRowsBelow(grid, h)) :
                            ~IsBlankCell(DataRowsBelow(grid, h)[k][j]))

\* C20: for a valid header index h the table returned has the trimmed texts
\* of row h as column labels and, as rows, the grid rows below h in order
\* without the rows that are empty or blank throughout, both restricted to
\* the columns that are not empty or blank throughout the remaining rows:
\* no row at or above h, no blank row and no blank column is in it.
C20_TableIsDataBelowHeader ==
    pc \in {"table_done", "table_redone"} /\ header_row >= 0 =>
        LET rs == DataRowsBelow(raw_df, header_row)
            cs == DataColumns(raw_df, header_row)
        IN  /\ table.columns
                 = [k \in 1..Len(cs) |-> normalize_text(raw_df[header_row + 1][cs[k]])]
            /\ table.rows
                 = [r \in 1..Len(rs) |-> [k \in 1..Len(cs) |-> rs[r][cs[k]]]]
            /\ \A r \in 1..Len(table.rows) :
                  \E k \in 1..Len(table.rows[r]) : ~IsBlankCell(table.rows[r][k])

\* two positions of a list of labels carry the same label
HasDuplicateLabel(labels) ==
    \E i, j \in 1..Len(labels) : i # j /\ labels[i] = labels[j]

\* the positions (1-based) of the columns that hold a value in some row
\* kept below row h, each position judged by its own cells
NonBlankPositions(grid, h) ==
    LET kept == SelectSeq(SubSeq(grid, h + 2, Len(grid)),
                          LAMBDA r : \E j \in 1..Len(r) : ~is_na(r[j]))
    IN  SelectSeq([j \in 1..Len(grid[h + 1]) |-> j],
                  LAMBDA j : \E k \in 1..Len(kept) : ~IsBlankCell(kept[k][j]))

\* C21: when two or more cells of the header row have the same trimmed text
\* (several empty labels included), the extraction completes without an
\* error and keeps or drops each column position on its own cells.
C21_DuplicateLabelsTolerated ==
    /\ pc \in {"table_done", "table_raised", "table_redone"}
    /\ header_row \in 0..(Len(raw_df) - 1)
    /\ HasDuplicateLabel([j \in 1..2 |-> normalize_text(raw_df[header_row + 1][j])])
    => /\ table.t = "frame"
       /\ table.columns
            = [k \in 1..Len(NonBlankPositions(raw_df, header_row)) |->
                 normalize_text(raw_df[header_row + 1]
                                      [NonBlankPositions(raw_df, header_row)[k]])]

\* C22: for a header index h with h + 1 above the number of grid rows the
\* extraction returns an empty table, and for h the last row index it
\* returns a table with the labels of the header row and no data row.
C22_HeaderAtOrPastEndGivesEmptyTable ==
    /\ pc \in {"table_done", "table_raised", "table_redone"}
    /\ header_row >= 0
    => /\ header_row + 1 > Len(raw_df) =>
            table.t = "frame" /\ table.rows = <<>>
       /\ header_row + 1 = Len(raw_df) =>
            /\ table.t = "frame"
            /\ table.rows = <<>>
            /\ table.columns
                 = [j \in 1..2 |-> normalize_text(raw_df[header_row + 1][j])]

\* the name under which the audit records the column at position j
ColumnName(j) == <<"C","o","l","u","m","n">> \o str_nat(j)

\* the label of the column at position j (1-based) of the header row h
LabelAt(grid, h, j) == normalize_text(grid[h + 1][j])

\* C23: the list of dropped columns recorded for a sheet names exactly the
\* columns that the extraction removed as blank: the column at a position
\* is recorded if and only if its label is absent from the extracted table.
C23_RecordedDropsAreExtractionDrops ==
    /\ audit # None
    /\ audit.t = "SheetAudit"
    /\ audit.detected_header_row # None
    => \A j \in 1..Len(raw_df[1]) :
          in_list(audit.blank_columns_removed, ColumnName(j))
            <=> ~in_list(audit.columns,
                         LabelAt(raw_df, audit.detected_header_row.v, j))

\* a text holds a digit
HasDigit(cs) == \E i \in 1..Len(cs) : is_digit(cs[i])

\* a cell that denotes zero: the integer 0, or a text whose digits are all 0
DenotesZero(c) ==
    \/ c = Int_(0)
    \/ c.t = "str" /\ HasDigit(c.s)
         /\ \A i \in 1..Len(c.s) : is_digit(c.s[i]) => c.s[i] = "0"

\* C24: the normalized value is a finite number or the absence marker; an
\* empty cell, "", "-" and a text without any number yield absence, and the
\* value 0 comes only from a cell that denotes zero.
C24_NormalizedIsFiniteOrAbsent ==
    pc = "parsed" =>
        /\ parsed = None \/ (parsed.t = "float" /\ parsed.cls = "fin")
        /\ x = NaN => parsed = None
        /\ x.t = "str" /\ (strip(x.s) \in {<<>>, <<"-">>} \/ ~HasDigit(x.s))
              => parsed = None
        /\ parsed # None /\ parsed.cls = "fin" /\ parsed.num = 0 => DenotesZero(x)

\* the number of days of month m of year y in the Gregorian calendar
DaysInMonth(y, m) ==
    LET leap == IF y % 100 = 0 THEN y % 400 = 0 ELSE y % 4 = 0
    IN  <<31, IF leap THEN 29 ELSE 28, 31, 30, 31, 30, 31, 31, 30, 31, 30, 31>>[m]

QuarterLabels ==
    [m \in 1..12 |-> IF m <= 3 THEN <<"Q", "1">> ELSE IF m <= 6 THEN <<"Q", "2">>
                      ELSE IF m <= 9 THEN <<"Q", "3">> ELSE <<"Q", "4">>]

RanksBefore(grid, a, j) ==
    \/ a.score > RowScore(grid, j)
    \/ a.score = RowScore(grid, j) /\ a.i < j

\* C26: the candidate list holds only rows within the search depth that
\* score above 0, each with its score, ordered by score descending and by
\* row index ascending among equal scores; it holds the 10 first of that
\* ranking at most, and its first entry is the header row returned, with
\* the best score reported.
C26_CandidateListIsRankedTop10 ==
    pc = "header_done" =>
        LET c == debug.candidates_top10
            S == Candidates(raw_df, search_rows)
        IN  /\ Len(c) <= 10
            /\ Len(c) = Min(10, Cardinality(S))
            /\ \A k \in 1..Len(c) :
                  /\ c[k].i \in S
                  /\ c[k].score = RowScore(raw_df, c[k].i)
                  /\ c[k].score > 0
                  /\ \A l \in (k + 1)..Len(c) : RanksBefore(raw_df, c[k], c[l].i)
                  /\ \A j \in S : (\A l \in 1..Len(c) : c[l].i # j)
                                       => RanksBefore(raw_df, c[k], j)
            /\ c = <<>> => best = None /\ debug.best_score = None
            /\ c # <<>> => /\ best = Int_(c[1].i)
                           /\ debug.best_row_index = best
                           /\ debug.best_score = Int_(c[1].score)

\* eleven rows score above 0 within the depth: ten are listed, the row of
\* score 8 first and then the rows of score 5 from the top of the sheet
C26_Witness ==
    /\ pc = "header_done"
    /\ search_rows = 60
    /\ Cardinality(Candidates(raw_df, search_rows)) = 11
    /\ Len(debug.candidates_top10) = 10
    /\ best = Int_(5)
    /\ debug.candidates_top10[2].i = 1
    /\ debug.candidates_top10[3].i = 2
    /\ debug.candidates_top10[2].score = debug.candidates_top10[3].score

\* C27: locating the header, extracting the table, cleaning the wide table
\* and unpivoting leave the raw grid as it was read (cells, row order and
\* shape), so that each step run again on the grid returns what it returned.
C27_RawGridIsReadOnly ==
    pc \in {"pnl_start", "pnl_cleaned", "pnl_raised", "pnl_done"} /\ audit # None =>
        /\ raw_df = raw
        /\ audit = audit_sheet(raw_df)
        /\ pc \in {"pnl_cleaned", "pnl_done"} =>
              Return2(wide, info) = clean_wide_pnl(raw, year, scenario)
        /\ pc = "pnl_raised" => wide = clean_wide_pnl(raw, year, scenario)
        /\ pc = "pnl_done" => long = wide_to_long_fact(wide)

\* the four steps have run on a sheet of 14 columns: the wide table holds
\* the number 12345 where the grid still holds the text "12,345"
C27_Witness ==
    /\ pc = "pnl_done"
    /\ audit # None
    /\ audit.t = "SheetAudit"
    /\ audit.detected_header_row = Int_(0)
    /\ audit.extracted_shape # None
    /\ Len(long) = 12
    /\ Len(raw) = 2
    /\ raw[2][3] = Str_(t_12_345)
    /\ wide.rows[1].cells[3] = Fin(FALSE, 12345, 0)

\* C28: numeric normalization is idempotent: parse_messy_number called on
\* the value it returned returns that value again, a number staying the
\* same number and absence staying absence, in both scripts.
C28_NormalizeIdempotent ==
    /\ pc \in {"reparsed", "reparsed_audit", "code_audit", "code_done"}
          => reparsed = parsed
    /\ pc \in {"reparsed_audit", "code_audit", "code_done"}
          => reparsed_audit = parsed_audit

\* C29: the helpers that both scripts define agree: the two
\* parse_messy_number return the same result for every cell value, and the
\* two looks_like_account_code the same verdict for every text.
C29_DuplicatedHelpersAgree ==
    /\ pc \in {"parsed_audit", "reparsed", "reparsed_audit", "code_audit", "code_done"}
          => parsed_audit = parsed
    /\ pc \in {"reparsed_audit", "code_audit", "code_done"}
          => reparsed_audit = reparsed
    /\ pc = "code_done" /\ x.t = "str" => is_code_audit = is_code_pnl

\* the text of a tab, 4001 and a blank: both parsers return 4001.0 and both
\* account-code tests say yes
C29_Witness ==
    /\ pc = "code_done"
    /\ x = Str_(t_tab_4001)
    /\ parsed = Fin(FALSE, 4001, 0)
    /\ parsed_audit = Fin(FALSE, 4001, 0)
    /\ is_code_audit = TRUE
    /\ is_code_pnl = TRUE

====
